---- MODULE Spec2Model ----
(***************************************************************************)
(* executionbackup: a multiplexer between one consensus client and a pool  *)
(* of execution nodes (src/src/main.rs).                                   *)
(*                                                                         *)
(* Three specifications share the variables below:                         *)
(*   SpecPool    the node pool (NodeRouter's lists, primary and locks)     *)
(*               under the periodic sweep and concurrent HTTP tasks;       *)
(*   SpecReducer fcu_majority / fcu_logic applied to every bounded list    *)
(*               of payload statuses and every threshold;                  *)
(*   SpecRoute   do_engine_route for the broadcast engine methods.         *)
(***************************************************************************)
EXTENDS Integers, Sequences, FiniteSets, TLC

\* ---------------------------------------------------------------- bounds
\* Nodes that can ever be configured (at startup plus /add_nodes).
MaxNodes == 2
\* Round-trip times a probe can report for a Synced node are 1..MaxRespTime.
MaxRespTime == 2
\* Longest response list handed to the reducer in SpecReducer.
MaxResps == 4
\* Block values a getPayload response can carry are 1..MaxBlockValue.
MaxBlockValue == 3
\* Nodes in the pool that SpecRoute routes one engine request through.
MaxAlive == 3

NoNode == 0
NoTask == "none"
NodeIds == 1..MaxNodes

\* The background sweep task (main.rs:1526) and two inbound HTTP tasks.
SweepTask == "sweep"
HttpTasks == {"h1", "h2"}
\* Both serve primary-only requests; the second also serves GET /metrics,
\* GET /recheck and POST /add_nodes.
RequestTasks == {"h1", "h2"}
AdminTasks == {"h2"}
Tasks == {SweepTask} \cup HttpTasks

\* NodeRouter's five locks; per-node status locks are leaf locks that are
\* never held across another acquisition and are read/written atomically.
Locks == {"nodes", "alive", "syncing", "dead", "primary"}

VARIABLES
    \* ---- NodeRouter (main.rs:276-298) and Node
    nodes,                   \* Mutex<Vec<Arc<Node>>>: configured nodes
    url,                     \* Node.url of each node id
    status,                  \* Node.status.status of each node id (its SyncingStatus)
    alive_nodes,             \* RwLock<Vec<Arc<Node>>>
    alive_but_syncing_nodes, \* RwLock<Vec<Arc<Node>>>
    dead_nodes,              \* RwLock<Vec<Arc<Node>>>
    primary_node,            \* RwLock<Arc<Node>>
    majority_percentage,     \* threshold in tenths (0.6 is 6)
    \* ---- lock state
    wlock,                   \* lock -> task holding it exclusively
    rlock,                   \* lock -> tasks holding it shared
    \* ---- tasks
    pc,                      \* task -> position in its handler
    probed,                  \* task -> recheck's results (index -> NodeHealth)
    old_url,                 \* task -> get_execution_node's old_primary_node_url
    sel,                     \* task -> node chosen / returned / to demote
    swept,                   \* number of configured nodes the last completed recheck covered
    \* ---- one engine request (do_engine_route)
    request,                 \* the RpcRequest being routed, or NoRequest
    completed,               \* concurrent_requests: per alive node, what came back
    resps,                   \* the decoded responses, in node order
    majority,                \* fcu_logic's local `majority` (fcu_majority's result)
    result,                  \* fcu_logic's return value
    payload_id,              \* the forkchoiceUpdated arm's payload_id
    reply,                   \* (body, HTTP status) returned to the CL
    sent,                    \* outbound calls made: [node, via]
    backfill,                \* fcu_logic's spawned task: has it been spawned
    stage,                   \* how far the request has got
    incoming,                \* the HTTP request route_all was given
    jwt_token,               \* the bearer token route_all hands to the route
    spawned,                 \* the task spawned at 644 or 994: none, pending, done
    \* ---- the fork selector (25-44)
    fork_config,             \* NodeRouter.fork_config: the two optional fork epochs
    timestamp,               \* the timestamp timestamp_to_version was last given
    fork_name,               \* what it returned: Option<ForkName>
    earlier                  \* the call before that: its timestamp and result

poolvars == <<nodes, url, status, alive_nodes, alive_but_syncing_nodes, dead_nodes,
              primary_node, wlock, rlock, pc, probed, old_url, sel, swept>>
routevars == <<request, completed, resps, majority, result, payload_id, reply, sent,
               backfill, stage, incoming, jwt_token, spawned>>
forkvars == <<fork_config, timestamp, fork_name, earlier>>
vars == <<poolvars, majority_percentage, routevars, forkvars>>
\* What the pool's tasks leave alone.
routeframe == <<majority_percentage, routevars, forkvars>>

\* ------------------------------------------------------------- sequences
SeqToSet(s) == {s[i] : i \in 1..Len(s)}

RemoveAtKeeps(s, i) == s
\* 335: Vec::remove(index)
RemoveAt(s, i) == SubSeq(s, 1, i - 1) \o SubSeq(s, i + 1, Len(s))

LastIndex(hits) ==
    IF hits = {} THEN 0
    ELSE CHOOSE i \in hits : \A j \in hits : j <= i

\* Vec::iter().position(pred), hits being the indices where pred holds: the
\* first of them, 0 when there is none.
FirstIndex(hits) ==
    IF hits = {} THEN 0
    ELSE CHOOSE i \in hits : \A j \in hits : i <= j

\* ------------------------------------------------------------------ Node
SyncingStatus == {"Synced", "OnlineAndSyncing", "Offline"}

\* Node::new: a node starts Offline.
InitialHealth == "Offline"

\* What a probe (Node::check_status, or recheck's Err arm at 423-429) yields.
ProbeOutcomes ==
    {[status |-> "Synced", resp_time |-> r] : r \in 1..MaxRespTime}
        \cup {[status |-> "OnlineAndSyncing", resp_time |-> 1],
              [status |-> "Offline", resp_time |-> 0]}

NoProbe == [status |-> "pending", resp_time |-> 0]

\* ----------------------------------------------------------------- locks
CanRead(l) == wlock[l] = NoTask
CanWrite(l) == wlock[l] = NoTask /\ rlock[l] = {}

ReleasedW(t) == [l \in Locks |-> IF wlock[l] = t THEN NoTask ELSE wlock[l]]
ReleasedR(t) == [l \in Locks |-> rlock[l] \ {t}]

\* ----------------------------------------------------------------- Init
\* --nodes (1361-1368, 1454-1497): at least one node is configured.
InitialNodes == <<1>>

NoRequest == [method |-> "none"]
NoReply == [kind |-> "none"]
NoResult == [kind |-> "none"]
\* No bearer token: nothing was routed, or the request was turned away.
NoToken == [kind |-> "none", key |-> 0]
NoHttp == [json |-> FALSE, meth |-> "none", rpc_ok |-> FALSE, auth |-> "none", req |-> NoRequest]

\* No call of timestamp_to_version yet.
NoCall == [timestamp |-> 0, fork_name |-> [kind |-> "none"]]

InitForkIdle ==
    /\ fork_config = [shanghai_fork_epoch |-> [kind |-> "None"],
                      cancun_fork_epoch |-> [kind |-> "None"]]
    /\ timestamp = 0
    /\ fork_name = [kind |-> "none"]
    /\ earlier = NoCall

InitRouteIdle ==
    /\ request = NoRequest
    /\ completed = <<>>
    /\ resps = <<>>
    /\ majority = NoResult
    /\ result = NoResult
    /\ payload_id = "null"
    /\ reply = NoReply
    /\ sent = {}
    /\ backfill = FALSE
    /\ stage = "idle"
    /\ incoming = NoHttp
    /\ jwt_token = NoToken
    /\ spawned = "none"

\* NodeRouter::new (301-322) as called by main (1511-1531): the lists start
\* empty, primary is the first configured node, and the sweep task is spawned.
InitPoolState ==
    /\ nodes = InitialNodes
    /\ url = [n \in NodeIds |-> n]
    /\ status = [n \in NodeIds |-> InitialHealth]
    /\ alive_nodes = <<>>
    /\ dead_nodes = <<>>
    /\ alive_but_syncing_nodes = <<>>
    /\ primary_node = InitialNodes[1]
    /\ wlock = [l \in Locks |-> NoTask]
    /\ rlock = [l \in Locks |-> {}]
    /\ pc = [t \in Tasks |-> IF t = SweepTask THEN "r_lock_nodes" ELSE "idle"]
    /\ probed = [t \in Tasks |-> <<>>]
    /\ old_url = [t \in Tasks |-> 0]
    /\ sel = [t \in Tasks |-> NoNode]
    /\ swept = 0

\* --fcu-majority (1379-1386, 1439-1452): a fraction in [0, 1], in tenths.
Thresholds == 0..10
DefaultThreshold == 6

InitPool ==
    /\ InitPoolState
    /\ majority_percentage = DefaultThreshold
    /\ InitRouteIdle
    /\ InitForkIdle

\* recheck entering its sweep without waiting for the nodes mutex.
RecheckLockNodesUnguarded(t) ==
    /\ \/ pc[t] = "r_lock_nodes"
       \/ t \in AdminTasks /\ pc[t] = "idle"
    /\ wlock' = [wlock EXCEPT !["nodes"] = t]
    /\ probed' = [probed EXCEPT ![t] = [i \in 1..Len(nodes) |-> NoProbe]]
    /\ pc' = [pc EXCEPT ![t] = "r_probe"]
    /\ UNCHANGED <<nodes, url, status, alive_nodes, alive_but_syncing_nodes, dead_nodes,
                   primary_node, rlock, old_url, sel, swept>>
    /\ UNCHANGED routeframe

\* ------------------------------------------------------- recheck (396-507)
\* 401: let nodes = self.nodes.lock().await, held to the end of the function.
\* Entered by the periodic task (1527-1530, after its sleep), by /add_nodes
\* after its append (1326), and by GET /recheck (1289-1302, 1261-1263).
recheck_lock_nodes(t) ==
    /\ \/ pc[t] = "r_lock_nodes"
       \/ t \in AdminTasks /\ pc[t] = "idle"
    /\ CanWrite("nodes")
    /\ wlock' = [wlock EXCEPT !["nodes"] = t]
    /\ probed' = [probed EXCEPT ![t] = [i \in 1..Len(nodes) |-> NoProbe]]
    /\ pc' = [pc EXCEPT ![t] = "r_probe"]
    /\ UNCHANGED <<nodes, url, status, alive_nodes, alive_but_syncing_nodes, dead_nodes,
                   primary_node, rlock, old_url, sel, swept>>
    /\ UNCHANGED routeframe

\* 408-436: the probes run concurrently; each check_status records the health
\* it observed in the node and hands it to recheck.
recheck_probe(t) ==
    /\ pc[t] = "r_probe"
    /\ \E i \in 1..Len(nodes) : \E h \in ProbeOutcomes :
        /\ probed[t][i] = NoProbe
        /\ probed' = [probed EXCEPT ![t][i] = h]
        /\ status' = [status EXCEPT ![nodes[i]] = h.status]
        /\ pc' = [pc EXCEPT ![t] =
                    IF \A j \in 1..Len(nodes) : j = i \/ probed[t][j] # NoProbe
                    THEN "r_primary" ELSE "r_probe"]
    /\ UNCHANGED <<nodes, url, alive_nodes, alive_but_syncing_nodes, dead_nodes,
                   primary_node, wlock, rlock, old_url, sel, swept>>
    /\ UNCHANGED routeframe

\* 438-458: classify the results, in node order.
Probed(t, st) ==
    SelectSeq([i \in 1..Len(probed[t]) |-> [node |-> nodes[i], health |-> probed[t][i]]],
              LAMBDA e : e.health.status = st)

RECURSIVE SortByRespTime(_)
\* 461: Vec::sort_by on resp_time: a stable ascending sort.
SortByRespTime(s) ==
    IF s = <<>> THEN <<>>
    ELSE LET front == SortByRespTime(SubSeq(s, 1, Len(s) - 1))
             x == s[Len(s)]
             k == Cardinality({i \in 1..Len(front) :
                                 front[i].health.resp_time <= x.health.resp_time})
         IN SubSeq(front, 1, k) \o <<x>> \o SubSeq(front, k + 1, Len(front))

NodesOf(s) == [i \in 1..Len(s) |-> s[i].node]

new_alive_nodes(t) == NodesOf(SortByRespTime(Probed(t, "Synced")))
new_alive_but_syncing_nodes(t) == NodesOf(Probed(t, "OnlineAndSyncing"))
new_dead_nodes(t) == NodesOf(Probed(t, "Offline"))

\* The primary choice without the latency sort: configured order decides.
NewPrimaryUnsorted(t) ==
    IF Probed(t, "Synced") # <<>> THEN Probed(t, "Synced")[1].node
    ELSE IF new_alive_but_syncing_nodes(t) # <<>> THEN new_alive_but_syncing_nodes(t)[1]
    ELSE IF new_dead_nodes(t) # <<>> THEN new_dead_nodes(t)[1]
    ELSE nodes[1]

\* 465-483: the node recheck makes primary.
NewPrimary(t) ==
    IF new_alive_nodes(t) # <<>> THEN new_alive_nodes(t)[1]
    ELSE IF new_alive_but_syncing_nodes(t) # <<>> THEN new_alive_but_syncing_nodes(t)[1]
    ELSE IF new_dead_nodes(t) # <<>> THEN new_dead_nodes(t)[1]
    ELSE nodes[1]

\* 464-484: primary_node.write(), assignment, drop.
recheck_primary(t) ==
    /\ pc[t] = "r_primary"
    /\ CanWrite("primary")
    /\ primary_node' = NewPrimary(t)
    /\ pc' = [pc EXCEPT ![t] = "r_lock_syncing"]
    /\ UNCHANGED <<nodes, url, status, alive_nodes, alive_but_syncing_nodes, dead_nodes,
                   wlock, rlock, probed, old_url, sel, swept>>
    /\ UNCHANGED routeframe

\* 487: alive_but_syncing_nodes.write()
recheck_lock_syncing(t) ==
    /\ pc[t] = "r_lock_syncing"
    /\ CanWrite("syncing")
    /\ wlock' = [wlock EXCEPT !["syncing"] = t]
    /\ pc' = [pc EXCEPT ![t] = "r_lock_alive"]
    /\ UNCHANGED <<nodes, url, status, alive_nodes, alive_but_syncing_nodes, dead_nodes,
                   primary_node, rlock, probed, old_url, sel, swept>>
    /\ UNCHANGED routeframe

\* 488: alive_nodes.write(), holding syncing
recheck_lock_alive(t) ==
    /\ pc[t] = "r_lock_alive"
    /\ CanWrite("alive")
    /\ wlock' = [wlock EXCEPT !["alive"] = t]
    /\ pc' = [pc EXCEPT ![t] = "r_lock_dead"]
    /\ UNCHANGED <<nodes, url, status, alive_nodes, alive_but_syncing_nodes, dead_nodes,
                   primary_node, rlock, probed, old_url, sel, swept>>
    /\ UNCHANGED routeframe

\* 489-507: dead_nodes.write(), the three lists are rebuilt, every guard is
\* dropped.  The periodic task then sleeps and sweeps again (1527-1530); the
\* /recheck and /add_nodes handlers go on to the metrics report (1263-1266).
recheck_rebuild(t) ==
    /\ pc[t] = "r_lock_dead"
    /\ CanWrite("dead")
    /\ alive_nodes' = new_alive_nodes(t)
    /\ dead_nodes' = new_dead_nodes(t)
    /\ alive_but_syncing_nodes' = new_alive_but_syncing_nodes(t)
    /\ swept' = Len(nodes)
    /\ wlock' = ReleasedW(t)
    /\ probed' = [probed EXCEPT ![t] = <<>>]
    /\ pc' = [pc EXCEPT ![t] = IF t = SweepTask THEN "r_lock_nodes"
                                                   ELSE "x_lock_syncing"]
    /\ UNCHANGED <<nodes, url, status, primary_node, rlock, old_url, sel>>
    /\ UNCHANGED routeframe

\* ------------------------------------------ get_execution_node (514-562)
\* 515-522: read primary and its health; return it when Synced.  This is the
\* first step of every primary-only request (672, 978, 1022).
get_execution_node_primary(t) ==
    /\ t \in RequestTasks
    /\ pc[t] = "idle"
    /\ CanRead("primary")
    /\ IF status[primary_node] = "Synced"
       THEN /\ sel' = [sel EXCEPT ![t] = primary_node]
            /\ pc' = [pc EXCEPT ![t] = "g_done"]
            /\ UNCHANGED old_url
       ELSE /\ old_url' = [old_url EXCEPT ![t] = url[primary_node]]
            /\ pc' = [pc EXCEPT ![t] = "g_lock_alive"]
            /\ UNCHANGED sel
    /\ UNCHANGED <<nodes, url, status, alive_nodes, alive_but_syncing_nodes, dead_nodes,
                   primary_node, wlock, rlock, probed, swept>>
    /\ UNCHANGED routeframe

\* 524-547: alive_nodes.read(); the first alive node that is not the old primary.
get_execution_node_alive(t) ==
    /\ pc[t] = "g_lock_alive"
    /\ CanRead("alive")
    /\ rlock' = [rlock EXCEPT !["alive"] = @ \cup {t}]
    /\ LET i == FirstIndex({j \in 1..Len(alive_nodes) : url[alive_nodes[j]] # old_url[t]})
       IN IF i # 0
          THEN /\ sel' = [sel EXCEPT ![t] = alive_nodes[i]]
               /\ pc' = [pc EXCEPT ![t] = "g_promote"]
          ELSE /\ pc' = [pc EXCEPT ![t] = "g_lock_syncing"]
               /\ UNCHANGED sel
    /\ UNCHANGED <<nodes, url, status, alive_nodes, alive_but_syncing_nodes, dead_nodes,
                   primary_node, wlock, probed, old_url, swept>>
    /\ UNCHANGED routeframe

\* 527-533 and 549-556: alive_but_syncing_nodes.read(), holding alive.
get_execution_node_syncing(t) ==
    /\ pc[t] = "g_lock_syncing"
    /\ CanRead("syncing")
    /\ IF alive_but_syncing_nodes = <<>>
       THEN /\ sel' = [sel EXCEPT ![t] = NoNode]
            /\ pc' = [pc EXCEPT ![t] = "g_done"]
            /\ rlock' = ReleasedR(t)
       ELSE /\ sel' = [sel EXCEPT ![t] = alive_but_syncing_nodes[1]]
            /\ pc' = [pc EXCEPT ![t] = "g_promote"]
            /\ rlock' = [rlock EXCEPT !["syncing"] = @ \cup {t}]
    /\ UNCHANGED <<nodes, url, status, alive_nodes, alive_but_syncing_nodes, dead_nodes,
                   primary_node, wlock, probed, old_url, swept>>
    /\ UNCHANGED routeframe

GetExecutionNodeNoPromote(t) ==
    /\ pc[t] = "g_promote"
    /\ CanWrite("primary")
    /\ rlock' = ReleasedR(t)
    /\ pc' = [pc EXCEPT ![t] = "g_done"]
    /\ UNCHANGED <<nodes, url, status, alive_nodes, alive_but_syncing_nodes, dead_nodes,
                   primary_node, wlock, probed, old_url, sel, swept>>
    /\ UNCHANGED routeframe
\* 534-536, 543-545, 557-559: primary_node.write(), holding the list guards.
get_execution_node_promote(t) ==
    /\ pc[t] = "g_promote"
    /\ CanWrite("primary")
    /\ primary_node' = sel[t]
    /\ rlock' = ReleasedR(t)
    /\ pc' = [pc EXCEPT ![t] = "g_done"]
    /\ UNCHANGED <<nodes, url, status, alive_nodes, alive_but_syncing_nodes, dead_nodes,
                   wlock, probed, old_url, sel, swept>>
    /\ UNCHANGED routeframe

\* ------------------------------------------- make_node_syncing (324-339)
\* 683-689: engine_getPayloadV1 failed with a connect/timeout/request error
\* and calls make_node_syncing(node).
\* 325-333: alive_nodes.write(); position by url; return when absent.
make_node_syncing_alive(t) ==
    /\ pc[t] = "g_done"
    /\ sel[t] # NoNode
    /\ CanWrite("alive")
    /\ old_url' = [old_url EXCEPT ![t] = 0]
    /\ IF FirstIndex({j \in 1..Len(alive_nodes) : url[alive_nodes[j]] = url[sel[t]]}) = 0
       THEN /\ pc' = [pc EXCEPT ![t] = "idle"]
            /\ sel' = [sel EXCEPT ![t] = NoNode]
            /\ UNCHANGED wlock
       ELSE /\ wlock' = [wlock EXCEPT !["alive"] = t]
            /\ pc' = [pc EXCEPT ![t] = "m_lock_syncing"]
            /\ UNCHANGED sel
    /\ UNCHANGED <<nodes, url, status, alive_nodes, alive_but_syncing_nodes, dead_nodes,
                   primary_node, rlock, probed, swept>>
    /\ UNCHANGED routeframe

\* 335-338: alive_but_syncing_nodes.write() holding alive; remove(index);
\* push(node); node.set_online_and_syncing().
make_node_syncing_syncing(t) ==
    /\ pc[t] = "m_lock_syncing"
    /\ CanWrite("syncing")
    /\ alive_nodes' = RemoveAt(alive_nodes,
                               FirstIndex({j \in 1..Len(alive_nodes) : url[alive_nodes[j]] = url[sel[t]]}))
    /\ alive_but_syncing_nodes' = Append(alive_but_syncing_nodes, sel[t])
    /\ status' = [status EXCEPT ![sel[t]] = "OnlineAndSyncing"]
    /\ wlock' = ReleasedW(t)
    /\ pc' = [pc EXCEPT ![t] = "idle"]
    /\ sel' = [sel EXCEPT ![t] = NoNode]
    /\ UNCHANGED <<nodes, url, dead_nodes, primary_node, rlock, probed, old_url, swept>>
    /\ UNCHANGED routeframe

\* ----------------------------------------- make_metrics_report (1190-1234)
\* 1193: alive_but_syncing_nodes.read().  Entered by GET /metrics (1236-1237)
\* and by recheck() after its sweep (1266).
metrics_lock_syncing(t) ==
    /\ \/ pc[t] = "x_lock_syncing"
       \/ t \in AdminTasks /\ pc[t] = "idle"
    /\ CanRead("syncing")
    /\ rlock' = [rlock EXCEPT !["syncing"] = @ \cup {t}]
    /\ pc' = [pc EXCEPT ![t] = "x_lock_alive"]
    /\ UNCHANGED <<nodes, url, status, alive_nodes, alive_but_syncing_nodes, dead_nodes,
                   primary_node, wlock, probed, old_url, sel, swept>>
    /\ UNCHANGED routeframe

\* 1194-1205: alive_nodes.read() holding syncing; both guards dropped; the
\* response times are read from the nodes.
metrics_lock_alive(t) ==
    /\ pc[t] = "x_lock_alive"
    /\ CanRead("alive")
    /\ rlock' = ReleasedR(t)
    /\ pc' = [pc EXCEPT ![t] = "x_report_alive"]
    /\ UNCHANGED <<nodes, url, status, alive_nodes, alive_but_syncing_nodes, dead_nodes,
                   primary_node, wlock, probed, old_url, sel, swept>>
    /\ UNCHANGED routeframe

\* 1207-1231: the guards taken inside the MetricsReport literal are
\* temporaries of one statement: each is held until the statement ends.
metrics_report_alive(t) ==
    /\ pc[t] = "x_report_alive"
    /\ CanRead("alive")
    /\ rlock' = [rlock EXCEPT !["alive"] = @ \cup {t}]
    /\ pc' = [pc EXCEPT ![t] = "x_report_syncing"]
    /\ UNCHANGED <<nodes, url, status, alive_nodes, alive_but_syncing_nodes, dead_nodes,
                   primary_node, wlock, probed, old_url, sel, swept>>
    /\ UNCHANGED routeframe

metrics_report_syncing(t) ==
    /\ pc[t] = "x_report_syncing"
    /\ CanRead("syncing")
    /\ rlock' = [rlock EXCEPT !["syncing"] = @ \cup {t}]
    /\ pc' = [pc EXCEPT ![t] = "x_report_dead"]
    /\ UNCHANGED <<nodes, url, status, alive_nodes, alive_but_syncing_nodes, dead_nodes,
                   primary_node, wlock, probed, old_url, sel, swept>>
    /\ UNCHANGED routeframe

metrics_report_dead(t) ==
    /\ pc[t] = "x_report_dead"
    /\ CanRead("dead")
    /\ rlock' = [rlock EXCEPT !["dead"] = @ \cup {t}]
    /\ pc' = [pc EXCEPT ![t] = "x_report_primary"]
    /\ UNCHANGED <<nodes, url, status, alive_nodes, alive_but_syncing_nodes, dead_nodes,
                   primary_node, wlock, probed, old_url, sel, swept>>
    /\ UNCHANGED routeframe

metrics_report_primary(t) ==
    /\ pc[t] = "x_report_primary"
    /\ CanRead("primary")
    /\ rlock' = ReleasedR(t)
    /\ pc' = [pc EXCEPT ![t] = "idle"]
    /\ UNCHANGED <<nodes, url, status, alive_nodes, alive_but_syncing_nodes, dead_nodes,
                   primary_node, wlock, probed, old_url, sel, swept>>
    /\ UNCHANGED routeframe

\* ------------------------------------------------------- HTTP handlers
\* The request is answered: no node (674, 982, 1033), a response (682, 1010,
\* 1041), or an error that demotes nothing.
request_reply(t) ==
    /\ pc[t] = "g_done"
    /\ pc' = [pc EXCEPT ![t] = "idle"]
    /\ sel' = [sel EXCEPT ![t] = NoNode]
    /\ old_url' = [old_url EXCEPT ![t] = 0]
    /\ UNCHANGED <<nodes, url, status, alive_nodes, alive_but_syncing_nodes, dead_nodes,
                   primary_node, wlock, rlock, probed, swept>>
    /\ UNCHANGED routeframe

AddNodeReplaces(t) ==
    /\ t \in AdminTasks
    /\ pc[t] = "idle"
    /\ CanWrite("nodes")
    /\ Len(nodes) < MaxNodes
    /\ nodes' = [i \in 1..(MaxNodes - Len(nodes)) |-> Len(nodes) + i]
    /\ pc' = [pc EXCEPT ![t] = "r_lock_nodes"]
    /\ UNCHANGED <<url, status, alive_nodes, alive_but_syncing_nodes, dead_nodes,
                   primary_node, wlock, rlock, probed, old_url, sel, swept>>
    /\ UNCHANGED routeframe

\* 1304-1338: POST /add_nodes appends the new nodes under the nodes mutex
\* (1324), then runs recheck.  Nothing keeps a new node's url from repeating a
\* configured one: u[n] says that node n is given the url of the first node.
add_node(t) ==
    /\ t \in AdminTasks
    /\ pc[t] = "idle"
    /\ CanWrite("nodes")
    /\ \E k \in 0..(MaxNodes - Len(nodes)) :
       \E u \in [(Len(nodes) + 1)..(Len(nodes) + k) -> BOOLEAN] :
        /\ nodes' = nodes \o [i \in 1..k |-> Len(nodes) + i]
        /\ url' = [n \in NodeIds |-> IF n \in DOMAIN u /\ u[n] THEN url[nodes[1]]
                                                                 ELSE url[n]]
    /\ pc' = [pc EXCEPT ![t] = "r_lock_nodes"]
    /\ UNCHANGED <<status, alive_nodes, alive_but_syncing_nodes, dead_nodes,
                   primary_node, wlock, rlock, probed, old_url, sel, swept>>
    /\ UNCHANGED routeframe

NextPool ==
    \E t \in Tasks :
        \/ recheck_lock_nodes(t)
        \/ recheck_probe(t)
        \/ recheck_primary(t)
        \/ recheck_lock_syncing(t)
        \/ recheck_lock_alive(t)
        \/ recheck_rebuild(t)
        \/ get_execution_node_primary(t)
        \/ get_execution_node_alive(t)
        \/ get_execution_node_syncing(t)
        \/ get_execution_node_promote(t)
        \/ make_node_syncing_alive(t)
        \/ make_node_syncing_syncing(t)
        \/ metrics_lock_syncing(t)
        \/ metrics_lock_alive(t)
        \/ metrics_report_alive(t)
        \/ metrics_report_syncing(t)
        \/ metrics_report_dead(t)
        \/ metrics_report_primary(t)
        \/ request_reply(t)
        \/ add_node(t)

SpecPool == InitPool /\ [][NextPool]_vars

\* ===================================================================
\* The majority reducer (569-661)
\* ===================================================================
\* PayloadStatusV1 { status, latestValidHash, validationError }; equality is
\* over all three fields.
PayloadStatuses ==
    {[status |-> "VALID", latestValidHash |-> "0xabc", validationError |-> "null"],
     [status |-> "VALID", latestValidHash |-> "0xdef", validationError |-> "null"],
     [status |-> "INVALID", latestValidHash |-> "0xdef", validationError |-> "bad block"],
     [status |-> "INVALID_BLOCK_HASH", latestValidHash |-> "null", validationError |-> "null"],
     [status |-> "SYNCING", latestValidHash |-> "null", validationError |-> "null"],
     [status |-> "ACCEPTED", latestValidHash |-> "null", validationError |-> "null"]}

\* 620-621, 631-632: PayloadStatusV1Status::Invalid | InvalidBlockHash
IsInvalid(ps) == ps.status \in {"INVALID", "INVALID_BLOCK_HASH"}

Count(r, results) == Cardinality({i \in 1..Len(results) : results[i] = r})

\* 581-589: the largest number of occurrences of one response.
MaxCount(results) ==
    IF results = <<>> THEN 0
    ELSE CHOOSE k \in 1..Len(results) :
            /\ \E i \in 1..Len(results) : Count(results[i], results) = k
            /\ \A i \in 1..Len(results) : Count(results[i], results) <= k

\* The required count when strictly more than the fraction must agree.
MajorityCountAbove(total, t) == (total * t) \div 10 + 1
MajorityCountCeil(total, t) == (total * t + 9) \div 10
\* 571: (total_responses as f32 * self.majority_percentage) as usize.  With t
\* in tenths the product is floor(total * t / 10); the f32 product of a count
\* below 10 and a tenth truncates to the same integer.
majority_count(total, t) == (total * t) \div 10

None == [kind |-> "None"]
Some(v) == [kind |-> "Some", value |-> v]

\* 569-597: what fcu_majority can return.  The counts live in a HashMap that
\* is iterated in its own (per-map random) order and the first response seen
\* with the largest count is kept, so any response with the largest count can
\* be the one returned.
fcu_majority(results, t) ==
    IF MaxCount(results) >= majority_count(Len(results), t)
    THEN IF results = <<>> THEN {None}
         ELSE {Some(results[i]) : i \in {j \in 1..Len(results) :
                                          Count(results[j], results) = MaxCount(results)}}
    ELSE {None}

Ok(v) == [kind |-> "Ok", value |-> v]
Err(e) == [kind |-> "Err", error |-> e]

AnyInvalidNever(results) == FALSE
\* 628-638: is any response INVALID or INVALID_BLOCK_HASH
AnyInvalid(results) == \E i \in 1..Len(results) : IsInvalid(results[i])

\* fcu_logic asking for the majority before looking at the list's length.
FcuLogicMajorityFirst(results, m) ==
    IF m.kind = "None" THEN Err("NoMajority")
    ELSE IF results = <<>> THEN Err("NoResponses")
    ELSE IF IsInvalid(m.value) THEN Ok(m.value)
    ELSE IF AnyInvalid(results) THEN Err("OneNodeIsInvalid")
    ELSE Ok(m.value)

FcuLogicScanFirst(results, m) ==
    IF results = <<>> THEN Err("NoResponses")
    ELSE IF AnyInvalid(results) /\ ~(m.kind = "Some" /\ IsInvalid(m.value))
         THEN Err("OneNodeIsInvalid")
    ELSE IF m.kind = "None" THEN Err("NoMajority")
    ELSE Ok(m.value)
FcuLogicNoShortCircuit(results, m) ==
    IF results = <<>> THEN Err("NoResponses")
    ELSE IF m.kind = "None" THEN Err("NoMajority")
    ELSE IF AnyInvalid(results) THEN Err("OneNodeIsInvalid")
    ELSE Ok(m.value)
\* 605-660: fcu_logic's return value, m being what fcu_majority returned.
FcuLogicResult(results, m) ==
    IF results = <<>> THEN Err("NoResponses")
    ELSE IF m.kind = "None" THEN Err("NoMajority")
    ELSE IF IsInvalid(m.value) THEN Ok(m.value)
    ELSE IF AnyInvalid(results) THEN Err("OneNodeIsInvalid")
    ELSE Ok(m.value)

SpawnsBackfillOnMajority(results, m) == results # <<>> /\ m.kind = "Some"
\* 640-657: the backfill task is spawned only on the last path of fcu_logic.
SpawnsBackfill(results, m) ==
    /\ results # <<>>
    /\ m.kind = "Some"
    /\ ~IsInvalid(m.value)
    /\ ~AnyInvalid(results)

\* ===================================================================
\* do_engine_route for the broadcast methods (696-969)
\* ===================================================================
NewPayloadMethods == {"engine_newPayloadV1", "engine_newPayloadV2", "engine_newPayloadV3"}
FcuMethods == {"engine_forkchoiceUpdatedV1", "engine_forkchoiceUpdatedV2",
               "engine_forkchoiceUpdatedV3"}
GetPayloadMethods == {"engine_getPayloadV2", "engine_getPayloadV3"}

\* The ExecutionPayload version a newPayload method decodes (228, 236, 244).
MethodVersion(method) ==
    CASE method = "engine_newPayloadV1" -> 1
      [] method = "engine_newPayloadV2" -> 2
      [] method = "engine_newPayloadV3" -> 3

\* params[0] of a newPayload request: the fields it carries (those of
\* ExecutionPayloadV1, V2 or V3, or not a payload at all), its blockHash, and
\* the hash of its header as the verifier computes it.
Payload(fields, block_hash, header_hash) ==
    [fields |-> fields, block_hash |-> block_hash, header_hash |-> header_hash]
NullPayload == Payload(0, "null", "null")

\* params of the newPayload requests routed: how many elements, params[0], and
\* whether params[1] and params[2] are a hash list and a hash.
NewPayloadParams ==
    {[len |-> 0, payload |-> NullPayload, aux_ok |-> FALSE],
     [len |-> 1, payload |-> Payload(0, "0xaaa", "0xaaa"), aux_ok |-> FALSE],
     [len |-> 1, payload |-> Payload(1, "0xaaa", "0xaaa"), aux_ok |-> FALSE],
     [len |-> 1, payload |-> Payload(1, "0xaaa", "0xbbb"), aux_ok |-> FALSE],
     [len |-> 1, payload |-> Payload(2, "0xaaa", "0xaaa"), aux_ok |-> FALSE],
     [len |-> 1, payload |-> Payload(3, "0xaaa", "0xbbb"), aux_ok |-> FALSE],
     [len |-> 3, payload |-> Payload(2, "0xaaa", "0xaaa"), aux_ok |-> TRUE],
     [len |-> 3, payload |-> Payload(3, "0xaaa", "0xaaa"), aux_ok |-> TRUE],
     [len |-> 3, payload |-> Payload(3, "0xaaa", "0xbbb"), aux_ok |-> TRUE],
     [len |-> 3, payload |-> Payload(3, "0xaaa", "0xaaa"), aux_ok |-> FALSE]}
OtherParams == [len |-> 1, payload |-> NullPayload, aux_ok |-> FALSE]

RequestId == 7

Requests ==
    {[method |-> m, id |-> RequestId, params |-> p] :
        m \in NewPayloadMethods, p \in NewPayloadParams}
    \cup {[method |-> m, id |-> RequestId, params |-> OtherParams] :
            m \in FcuMethods \cup GetPayloadMethods}

\* serde_json::from_value::<ExecutionPayloadVn>: the value must carry the
\* fields of version n; further fields are ignored.
DecodesAs(payload, version) == payload.fields >= version

\* verify_payload_block_hash: the hash of the header against block_hash.
verify_payload_block_hash(payload) == payload.header_hash = payload.block_hash

\* 46-104: newpayload_serializer on an engine_newPayloadV3 request.
newpayload_serializer_ok(req) ==
    /\ req.params.len = 3
    /\ DecodesAs(req.params.payload, 3)
    /\ req.params.aux_ok

\* 181-187
make_response(id, res) == [kind |-> "result", http |-> 200, id |-> id, result |-> res, top |-> {}]
make_error(id, msg, http) == [kind |-> "error", http |-> http, id |-> id, message |-> msg]
RawBody(text, http) == [kind |-> "raw", http |-> http, text |-> text]

SyncingStatusV1 ==
    [status |-> "SYNCING", latestValidHash |-> "null", validationError |-> "null"]

MakeSyncingStrUnverified(req) ==
    IF req.method \in NewPayloadMethods
    THEN IF ~DecodesAs(req.params.payload, MethodVersion(req.method))
         THEN RawBody("deserialize error", 200)
         ELSE make_response(req.id, SyncingStatusV1)
    ELSE [kind |-> "result", http |-> 200, id |-> req.id,
          result |-> [payloadStatus |-> SyncingStatusV1], top |-> {"payloadId"}]
\* 214-274: make_syncing_str(id, params[0], method, root), with the 200 its
\* callers pair it with.  params[0] of an empty array is Null.
make_syncing_str(req) ==
    IF req.method \in NewPayloadMethods
    THEN IF ~DecodesAs(req.params.payload, MethodVersion(req.method))
         THEN RawBody("deserialize error", 200)
         ELSE IF ~verify_payload_block_hash(req.params.payload)
         THEN RawBody("BlockHashMismatch", 200)
         ELSE make_response(req.id, SyncingStatusV1)
    ELSE \* 267: payloadId is a member of the envelope, not of result
         [kind |-> "result", http |-> 200, id |-> req.id,
          result |-> [payloadStatus |-> SyncingStatusV1], top |-> {"payloadId"}]

\* ------------------------------------------- concurrent_requests (342-394)
Failures == {[kind |-> "transport_error"], [kind |-> "invalid_json"],
             [kind |-> "el_error"], [kind |-> "no_result"], [kind |-> "bad_schema"]}

\* The payload statuses the nodes answer with in SpecRoute.
RoutePayloadStatuses ==
    PayloadStatuses
        \ {[status |-> "ACCEPTED", latestValidHash |-> "null", validationError |-> "null"],
           [status |-> "VALID", latestValidHash |-> "0xdef", validationError |-> "null"]}
PayloadIds == {"null", "0x01", "0x02"}

\* What one node's answer decodes to, by method.
ResultValues(method) ==
    IF method \in NewPayloadMethods THEN RoutePayloadStatuses
    ELSE IF method \in FcuMethods
    THEN [payloadStatus : RoutePayloadStatuses, payloadId : PayloadIds]
    ELSE [block_value : 1..MaxBlockValue]

Outcomes(method) == Failures \cup {[kind |-> "ok", value |-> v] : v \in ResultValues(method)}

\* The responses kept when only the first node's success is collected.
DecodedFirstOnly(done) ==
    LET oks == SelectSeq(done, LAMBDA c : c.kind = "ok")
    IN [i \in 1..(IF oks = <<>> THEN 0 ELSE 1) |-> oks[i].value]

\* 357-391: the responses that parsed and decoded, in node order.
Decoded(done) ==
    LET oks == SelectSeq(done, LAMBDA c : c.kind = "ok")
    IN [i \in 1..Len(oks) |-> oks[i].value]

\* ------------------------------------------------------- route_all inputs
\* The task that serves the POST / request.
RouteTask == "h1"

\* The methods served by one node: engine_getPayloadV1 (671), an engine
\* method of the catch-all arm (976), a method that is not engine_ (1130).
OtherEngineMethods == {"engine_exchangeCapabilities"}
NormalMethods == {"eth_chainId"}
PrimaryMethods == {"engine_getPayloadV1"} \cup OtherEngineMethods \cup NormalMethods

PrimaryRequests ==
    {[method |-> m, id |-> RequestId, params |-> OtherParams] : m \in PrimaryMethods}

\* 1079: meth.starts_with("engine_")
IsEngine(meth) ==
    meth \in NewPayloadMethods \cup FcuMethods \cup GetPayloadMethods
                \cup {"engine_getPayloadV1"} \cup OtherEngineMethods

\* The Authorization header: a bearer token, absent, or bytes to_str rejects.
Auths == {"bearer", "none", "opaque"}

\* What route_all reads of an HTTP request: whether the body is JSON, its
\* "method" when that is a string ("none" otherwise), whether the body
\* deserializes as an RpcRequest (req), and the Authorization header.
WellFormed(reqs) ==
    {[json |-> TRUE, meth |-> r.method, rpc_ok |-> TRUE, auth |-> a, req |-> r] :
        r \in reqs, a \in Auths}
Malformed ==
    {[json |-> FALSE, meth |-> "none", rpc_ok |-> FALSE, auth |-> a, req |-> NoRequest] :
        a \in {"bearer", "none"}}
    \cup {[json |-> TRUE, meth |-> m, rpc_ok |-> FALSE, auth |-> a, req |-> NoRequest] :
            m \in {"none", "engine_newPayloadV1", "engine_getPayloadV1", "eth_chainId"},
            a \in {"bearer", "none"}}
HttpRequests == WellFormed(Requests \cup PrimaryRequests) \cup Malformed

BadRequest == 400

RouteAllNoAuthCheck(h) ==
    IF ~h.json THEN make_error(0, "Couldn't deserialize request body", BadRequest)
    ELSE IF h.meth = "none" THEN make_error(0, "Request has no method field", BadRequest)
    ELSE IF IsEngine(h.meth) /\ ~h.rpc_ok
    THEN make_error(0, "Error deserializing request", BadRequest)
    ELSE NoReply
\* 1053-1117, 1152-1178: the reply with which route_all turns a request away
\* before any routing, NoReply when it routes it.
route_all_rejection(h) ==
    IF ~h.json THEN make_error(0, "Couldn't deserialize request body", BadRequest)
    ELSE IF h.meth = "none" THEN make_error(0, "Request has no method field", BadRequest)
    ELSE IF IsEngine(h.meth)
    THEN IF ~h.rpc_ok THEN make_error(0, "Error deserializing request", BadRequest)
         ELSE IF h.auth = "opaque"
         THEN make_error(0, "Error while converting jwt token to string", BadRequest)
         ELSE IF h.auth = "none"
         THEN make_error(0, "Request has no Authorization header", BadRequest)
         ELSE NoReply
    ELSE IF h.auth = "opaque"
    THEN RawBody("Could not extract authorization header from normal request", BadRequest)
    ELSE NoReply

\* Node.jwt_key: every node is configured with a secret of its own
\* (1476-1489, the #jwt-secret= suffix of its url).
jwt_key(n) == n

\* The token minted from the key of the node that is primary when route_all
\* reads it.
RouteAllTokenOfFirst(h) ==
    IF route_all_rejection(h) # NoReply THEN NoToken
    ELSE IF h.auth = "none" THEN [kind |-> "minted", key |-> jwt_key(nodes[1])]
    ELSE [kind |-> "header", key |-> 0]
\* 1088-1117, 1132-1141, 1152-1178: the token the route is called with: the
\* caller's Authorization header, or, for a request that is not engine_ and
\* has none, make_jwt over the key of the node primary_node then holds.
RouteAllToken(h) ==
    IF route_all_rejection(h) # NoReply THEN NoToken
    ELSE IF h.auth = "none" THEN [kind |-> "minted", key |-> jwt_key(primary_node)]
    ELSE [kind |-> "header", key |-> 0]

\* ------------------------------------------------------------- actions
\* 1048-1188: route_all turns the request away with 400, or hands an engine
\* request to do_engine_route (1119) and any other to do_route_normal (1135,
\* 1180); without an Authorization header the latter gets a token minted
\* from the primary's key, read under primary_node.read() (1140).
route_all(h) ==
    /\ stage = "idle"
    /\ pc[RouteTask] = "idle"
    /\ incoming' = h
    /\ jwt_token' = RouteAllToken(h)
    /\ request' = IF h.rpc_ok THEN h.req ELSE [method |-> h.meth]
    /\ (~IsEngine(h.meth) /\ h.auth = "none") => CanRead("primary")
    /\ IF route_all_rejection(h) = NoReply
       THEN stage' = "received" /\ UNCHANGED reply
       ELSE stage' = "replied" /\ reply' = route_all_rejection(h)
    /\ UNCHANGED <<completed, resps, majority, result, payload_id, sent, backfill, spawned>>
    /\ UNCHANGED <<poolvars, majority_percentage, forkvars>>

\* 819-825: engine_newPayloadV3 whose params newpayload_serializer rejects.
newpayload_v3_rejected ==
    /\ stage = "received"
    /\ request.method = "engine_newPayloadV3"
    /\ ~newpayload_serializer_ok(request)
    /\ reply' = RawBody("Failed to serialize newPayloadV3", 500)
    /\ stage' = "replied"
    /\ UNCHANGED <<request, completed, resps, majority, result, payload_id, sent, backfill>>
    /\ UNCHANGED <<incoming, jwt_token, spawned>>
    /\ UNCHANGED <<poolvars, majority_percentage, forkvars>>

\* 342-394: the request goes to every node of alive_nodes with do_request; a
\* response that fails, does not parse or does not decode is skipped.  A
\* getPayload response is told apart by the node that built its payload.
concurrent_requests ==
    /\ stage = "received"
    /\ request.method \in NewPayloadMethods \cup FcuMethods \cup GetPayloadMethods
    /\ request.method = "engine_newPayloadV3" => newpayload_serializer_ok(request)
    /\ \E done \in [1..Len(alive_nodes) -> Outcomes(request.method)] :
        /\ completed' = done
        /\ resps' = IF request.method \in GetPayloadMethods
                    THEN Decoded([i \in 1..Len(done) |->
                            IF done[i].kind = "ok"
                            THEN [kind |-> "ok",
                                  value |-> [block_value |-> done[i].value.block_value,
                                             execution_payload |-> alive_nodes[i]]]
                            ELSE done[i]])
                    ELSE Decoded(done)
    /\ sent' = sent \cup {[node |-> alive_nodes[i], via |-> "do_request"] :
                            i \in 1..Len(alive_nodes)}
    /\ stage' = "collected"
    /\ UNCHANGED <<request, majority, result, payload_id, reply, backfill>>
    /\ UNCHANGED <<incoming, jwt_token, spawned>>
    /\ UNCHANGED <<poolvars, majority_percentage, forkvars>>

MaxByFirst(rs) == CHOOSE i \in 1..Len(rs) : \A j \in 1..Len(rs) : j >= i
\* 704-706, 733-735: Iterator::max_by on block_value: the last of the largest.
MaxBy(rs) ==
    CHOOSE i \in 1..Len(rs) :
        /\ \A j \in 1..Len(rs) : rs[j].block_value <= rs[i].block_value
        /\ \A j \in (i + 1)..Len(rs) : rs[j].block_value < rs[i].block_value

\* 696-756: engine_getPayloadV2 / V3 answer with the most profitable payload.
get_payload ==
    /\ stage = "collected"
    /\ request.method \in GetPayloadMethods
    /\ reply' = IF resps = <<>>
                THEN make_error(request.id, "No blocks found in EL engine_getPayloadV2 responses", 200)
                ELSE make_response(request.id, resps[MaxBy(resps)])
    /\ stage' = "replied"
    /\ UNCHANGED <<request, completed, resps, majority, result, payload_id, sent, backfill>>
    /\ UNCHANGED <<incoming, jwt_token, spawned>>
    /\ UNCHANGED <<poolvars, majority_percentage, forkvars>>

\* 893-902: the payload statuses of the forkchoiceUpdated responses.
PayloadStatusResps ==
    IF request # NoRequest /\ request.method \in FcuMethods
    THEN [i \in 1..Len(resps) |-> resps[i].payloadStatus]
    ELSE resps

PayloadIdFirst(rs) ==
    IF \A i \in 1..Len(rs) : rs[i].payloadId = "null" THEN "null"
    ELSE rs[CHOOSE i \in 1..Len(rs) :
                /\ rs[i].payloadId # "null"
                /\ \A j \in 1..(i - 1) : rs[j].payloadId = "null"].payloadId
RECURSIVE PayloadIdOf(_)
\* 894-902: payload_id is overwritten by every response that carries one.
PayloadIdOf(rs) ==
    IF rs = <<>> THEN "null"
    ELSE IF rs[Len(rs)].payloadId # "null" THEN rs[Len(rs)].payloadId
    ELSE PayloadIdOf(SubSeq(rs, 1, Len(rs) - 1))

\* 599-661: fcu_logic on the collected payload statuses (763, 831, 904-906).
fcu_logic ==
    /\ stage = "collected"
    /\ request = NoRequest \/ request.method \in NewPayloadMethods \cup FcuMethods
    /\ \E m \in fcu_majority(PayloadStatusResps, majority_percentage) :
        /\ majority' = m
        /\ result' = FcuLogicResult(PayloadStatusResps, m)
        /\ backfill' = SpawnsBackfill(PayloadStatusResps, m)
        /\ spawned' = IF SpawnsBackfill(PayloadStatusResps, m) THEN "pending" ELSE spawned
    /\ payload_id' = IF request # NoRequest /\ request.method \in FcuMethods
                     THEN PayloadIdOf(resps) ELSE payload_id
    /\ stage' = "reduced"
    /\ UNCHANGED <<request, completed, resps, reply, sent>>
    /\ UNCHANGED <<incoming, jwt_token>>
    /\ UNCHANGED <<poolvars, majority_percentage, forkvars>>

\* 764-815, 832-883, 908-968: the reply built from fcu_logic's result.
engine_reply ==
    /\ stage = "reduced"
    /\ request # NoRequest
    /\ reply' = IF result.kind = "Err" THEN make_syncing_str(request)
                ELSE IF request.method \in FcuMethods
                THEN make_response(request.id,
                                   [payloadStatus |-> result.value, payloadId |-> payload_id])
                ELSE make_response(request.id, result.value)
    /\ stage' = "replied"
    /\ UNCHANGED <<request, completed, resps, majority, result, payload_id, sent, backfill>>
    /\ UNCHANGED <<incoming, jwt_token, spawned>>
    /\ UNCHANGED <<poolvars, majority_percentage, forkvars>>

\* 644-657: the task fcu_logic spawned reads alive_but_syncing_nodes and
\* sends the request to each of its nodes with do_request_no_timeout.
backfill_run ==
    /\ spawned = "pending"
    /\ request.method \in NewPayloadMethods \cup FcuMethods
    /\ CanRead("syncing")
    /\ sent' = sent \cup {[node |-> alive_but_syncing_nodes[i], via |-> "backfill"] :
                            i \in 1..Len(alive_but_syncing_nodes)}
    /\ spawned' = "done"
    /\ UNCHANGED <<request, completed, resps, majority, result, payload_id, reply,
                   backfill, stage, incoming, jwt_token>>
    /\ UNCHANGED <<poolvars, majority_percentage, forkvars>>

\* ------------------------------- the routes served by one node (671-694,
\* 976-1016, 1020-1044)
\* What do_request_no_timeout gives: the node's body and HTTP status, a
\* reqwest error of the connect, timeout or request class, or another error.
PrimaryOutcomes ==
    {[kind |-> "ok", status |-> 200], [kind |-> "ok", status |-> 401],
     [kind |-> "err_connect", status |-> 0], [kind |-> "err_other", status |-> 0]}

\* 682, 1010, 1041: the node's own body and status.
Upstream(n, o) == [kind |-> "upstream", http |-> o.status, node |-> n]

\* 672, 978, 1022: get_execution_node().await
do_route_get_execution_node ==
    /\ stage = "received"
    /\ request.method \in PrimaryMethods
    /\ get_execution_node_primary(RouteTask)

\* 673-675, 980-983, 1024-1034: get_execution_node returned None.
primary_no_node ==
    /\ stage = "received"
    /\ pc[RouteTask] = "g_done"
    /\ sel[RouteTask] = NoNode
    /\ reply' = IF request.method \in NormalMethods /\ ~incoming.rpc_ok
                THEN make_error(0, "deserialize error", 200)
                ELSE make_error(request.id, "No nodes available", 500)
    /\ stage' = "replied"
    /\ pc' = [pc EXCEPT ![RouteTask] = "idle"]
    /\ old_url' = [old_url EXCEPT ![RouteTask] = 0]
    /\ UNCHANGED <<nodes, url, status, alive_nodes, alive_but_syncing_nodes, dead_nodes,
                   primary_node, wlock, rlock, probed, sel, swept>>
    /\ UNCHANGED <<request, completed, resps, majority, result, payload_id, sent,
                   backfill, incoming, jwt_token, spawned, majority_percentage, forkvars>>

PrimaryReplyAlwaysError(method, id, n, o) == make_error(id, "transport error", 200)
\* 681-692, 1009-1015, 1040-1043: the reply once the node's call returned
\* (for engine_getPayloadV1 after make_node_syncing, when that is called).
PrimaryReply(method, id, n, o) ==
    IF o.kind = "ok" THEN Upstream(n, o)
    ELSE IF method \in NormalMethods THEN make_error(1, "transport error", 200)
    ELSE make_error(id, "transport error", 200)

DemotesAlways(method, o) == o.kind # "ok"
\* 686-689: make_node_syncing is called in the engine_getPayloadV1 arm only,
\* for errors that are is_connect, is_timeout or is_request.
Demotes(method, o) == method = "engine_getPayloadV1" /\ o.kind = "err_connect"

\* 679, 986-988, 1037-1039: do_request_no_timeout to the node
\* get_execution_node returned; 991-1006: the catch-all engine arm spawns the
\* replay whatever the outcome; then the reply, unless make_node_syncing is
\* to run first.
primary_request ==
    /\ stage = "received"
    /\ pc[RouteTask] = "g_done"
    /\ sel[RouteTask] # NoNode
    /\ \E o \in PrimaryOutcomes :
        /\ completed' = <<o>>
        /\ IF Demotes(request.method, o)
           THEN /\ stage' = "failed"
                /\ UNCHANGED <<reply, pc, sel, old_url>>
           ELSE /\ stage' = "replied"
                /\ reply' = PrimaryReply(request.method, IF incoming.rpc_ok THEN request.id ELSE 0,
                                         sel[RouteTask], o)
                /\ pc' = [pc EXCEPT ![RouteTask] = "idle"]
                /\ sel' = [sel EXCEPT ![RouteTask] = NoNode]
                /\ old_url' = [old_url EXCEPT ![RouteTask] = 0]
    /\ sent' = sent \cup {[node |-> sel[RouteTask], via |-> "do_request_no_timeout"]}
    /\ spawned' = IF request.method \in OtherEngineMethods THEN "pending" ELSE spawned
    /\ UNCHANGED <<nodes, url, status, alive_nodes, alive_but_syncing_nodes, dead_nodes,
                   primary_node, wlock, rlock, probed, swept>>
    /\ UNCHANGED <<request, resps, majority, result, payload_id, backfill, incoming, jwt_token,
                   majority_percentage, forkvars>>

\* 688: self.make_node_syncing(node.clone()).await
getpayload_v1_demote ==
    /\ stage = "failed"
    /\ make_node_syncing_alive(RouteTask)

\* 691: the error reply of engine_getPayloadV1 after make_node_syncing returned.
primary_error_reply ==
    /\ stage = "failed"
    /\ pc[RouteTask] = "idle"
    /\ reply' = PrimaryReply(request.method, request.id, NoNode, completed[1])
    /\ stage' = "replied"
    /\ UNCHANGED <<request, completed, resps, majority, result, payload_id, sent,
                   backfill, incoming, jwt_token, spawned>>
    /\ UNCHANGED <<poolvars, majority_percentage, forkvars>>

\* The node the request was sent to with do_request_no_timeout.
PrimaryUsed == CHOOSE n \in SeqToSet(nodes) : [node |-> n, via |-> "do_request_no_timeout"] \in sent

\* 994-1006: the spawned task reads alive_nodes and sends the request to every
\* alive node whose url is not the primary's.
replay_run ==
    /\ spawned = "pending"
    /\ request.method \in OtherEngineMethods
    /\ CanRead("alive")
    /\ sent' = sent \cup {[node |-> alive_nodes[i], via |-> "replay"] :
                            i \in {j \in 1..Len(alive_nodes) :
                                     url[alive_nodes[j]] # url[PrimaryUsed]}}
    /\ spawned' = "done"
    /\ UNCHANGED <<request, completed, resps, majority, result, payload_id, reply,
                   backfill, stage, incoming, jwt_token>>
    /\ UNCHANGED <<poolvars, majority_percentage, forkvars>>

\* --------------------------------------------------------- SpecReducer
RECURSIVE SeqsUpTo(_, _)
SeqsUpTo(S, n) ==
    IF n = 0 THEN {<<>>}
    ELSE LET shorter == SeqsUpTo(S, n - 1)
         IN shorter \cup {Append(q, x) : q \in {r \in shorter : Len(r) = n - 1}, x \in S}

\* fcu_logic applied to every list of at most MaxResps payload statuses under
\* every threshold.
InitReducer ==
    /\ InitPoolState
    /\ majority_percentage \in Thresholds
    /\ request = NoRequest
    /\ completed = <<>>
    /\ resps \in SeqsUpTo(PayloadStatuses, MaxResps)
    /\ majority = NoResult
    /\ result = NoResult
    /\ payload_id = "null"
    /\ reply = NoReply
    /\ sent = {}
    /\ backfill = FALSE
    /\ stage = "collected"
    /\ incoming = NoHttp
    /\ jwt_token = NoToken
    /\ spawned = "none"
    /\ InitForkIdle

NextReducer == fcu_logic

SpecReducer == InitReducer /\ [][NextReducer]_vars

\* ----------------------------------------------------------- SpecRoute
RouteThresholds == {0, 6, 10}

\* The nodes configured in SpecRoute: the last one is never found Synced.
RouteNodes == 1..(MaxAlive + 1)

\* The pool as a sweep leaves it: the first k configured nodes probed Synced
\* (in ascending resp_time), the others OnlineAndSyncing; or every node
\* probed Offline.
InitRoute ==
    /\ \E k \in 0..MaxAlive : \E offline \in BOOLEAN :
        /\ offline => k = 0
        /\ nodes = [i \in RouteNodes |-> i]
        /\ alive_nodes = [i \in 1..k |-> i]
        /\ alive_but_syncing_nodes = IF offline THEN <<>>
                                     ELSE [i \in 1..(MaxAlive + 1 - k) |-> k + i]
        /\ dead_nodes = IF offline THEN nodes ELSE <<>>
        /\ status = [n \in RouteNodes |-> IF offline THEN "Offline"
                                          ELSE IF n <= k THEN "Synced"
                                          ELSE "OnlineAndSyncing"]
    /\ url = [n \in RouteNodes |-> n]
    /\ primary_node = 1
    /\ wlock = [l \in Locks |-> NoTask]
    /\ rlock = [l \in Locks |-> {}]
    /\ pc = [t \in Tasks |-> IF t = SweepTask THEN "r_lock_nodes" ELSE "idle"]
    /\ probed = [t \in Tasks |-> <<>>]
    /\ old_url = [t \in Tasks |-> 0]
    /\ sel = [t \in Tasks |-> NoNode]
    /\ swept = MaxAlive + 1
    /\ majority_percentage \in RouteThresholds
    /\ InitRouteIdle
    /\ InitForkIdle

NextRoute ==
    \/ \E h \in HttpRequests : route_all(h)
    \/ newpayload_v3_rejected
    \/ concurrent_requests
    \/ get_payload
    \/ fcu_logic
    \/ engine_reply
    \/ backfill_run
    \/ do_route_get_execution_node
    \/ get_execution_node_alive(RouteTask)
    \/ get_execution_node_syncing(RouteTask)
    \/ get_execution_node_promote(RouteTask)
    \/ primary_no_node
    \/ primary_request
    \/ getpayload_v1_demote
    \/ make_node_syncing_syncing(RouteTask)
    \/ primary_error_reply
    \/ replay_run

SpecRoute == InitRoute /\ [][NextRoute]_vars

\* Every step of a handler or of a spawned task: NextRoute without the
\* arrival of a request.
RouteProgress ==
    \/ newpayload_v3_rejected
    \/ concurrent_requests
    \/ get_payload
    \/ fcu_logic
    \/ engine_reply
    \/ backfill_run
    \/ do_route_get_execution_node
    \/ get_execution_node_alive(RouteTask)
    \/ get_execution_node_syncing(RouteTask)
    \/ get_execution_node_promote(RouteTask)
    \/ primary_no_node
    \/ primary_request
    \/ getpayload_v1_demote
    \/ make_node_syncing_syncing(RouteTask)
    \/ primary_error_reply
    \/ replay_run

\* The tokio runtime keeps polling the handler and the tasks it spawned
\* (644, 994), and every call to a node returns: no step that can be taken is
\* put off for ever.
SpecRouteFair == SpecRoute /\ WF_vars(RouteProgress)


\* --------------------------------------------------------- SpecPrimary
\* One request for a method served by one node, routed while the periodic
\* sweep runs.  All MaxNodes nodes are configured from the start; their urls
\* are pairwise distinct, or all the same.
InitPrimary ==
    /\ nodes = [i \in NodeIds |-> i]
    /\ url \in {[n \in NodeIds |-> n], [n \in NodeIds |-> 1]}
    /\ status = [n \in NodeIds |-> InitialHealth]
    /\ alive_nodes = <<>>
    /\ dead_nodes = <<>>
    /\ alive_but_syncing_nodes = <<>>
    /\ primary_node = 1
    /\ wlock = [l \in Locks |-> NoTask]
    /\ rlock = [l \in Locks |-> {}]
    /\ pc = [t \in Tasks |-> IF t = SweepTask THEN "r_lock_nodes" ELSE "idle"]
    /\ probed = [t \in Tasks |-> <<>>]
    /\ old_url = [t \in Tasks |-> 0]
    /\ sel = [t \in Tasks |-> NoNode]
    /\ swept = 0
    /\ majority_percentage = DefaultThreshold
    /\ InitRouteIdle
    /\ InitForkIdle

\* The requests routed in SpecPrimary: well formed, with a bearer token.
PrimaryHttp == {h \in WellFormed(PrimaryRequests) : h.auth = "bearer"}

\* 1526-1531: the steps of the periodic sweep.
SweepStep ==
    \/ recheck_lock_nodes(SweepTask)
    \/ recheck_probe(SweepTask)
    \/ recheck_primary(SweepTask)
    \/ recheck_lock_syncing(SweepTask)
    \/ recheck_lock_alive(SweepTask)
    \/ recheck_rebuild(SweepTask)

\* The steps of the handler once the request is in.
PrimaryStep ==
    \/ do_route_get_execution_node
    \/ get_execution_node_alive(RouteTask)
    \/ get_execution_node_syncing(RouteTask)
    \/ get_execution_node_promote(RouteTask)
    \/ primary_no_node
    \/ primary_request
    \/ getpayload_v1_demote
    \/ make_node_syncing_syncing(RouteTask)
    \/ primary_error_reply

NextPrimary ==
    \/ SweepStep
    \/ \E h \in PrimaryHttp : route_all(h)
    \/ PrimaryStep
    \/ replay_run

SpecPrimary == InitPrimary /\ [][NextPrimary]_vars

\* tokio polls every task, its locks hand over in arrival order, and every
\* call to a node returns: a task that can take a step again and again does
\* take one.
SpecPrimaryFair ==
    SpecPrimary /\ SF_vars(SweepStep) /\ SF_vars(PrimaryStep) /\ SF_vars(replay_run)

\* ------------------------------------------------------------- SpecMint
\* One request that is not engine_ and carries no Authorization header,
\* routed while the periodic sweep runs.
MintHttp ==
    {h \in WellFormed(PrimaryRequests) \cup Malformed :
        h.json /\ h.meth \in NormalMethods /\ h.auth = "none"}

NextMint ==
    \/ SweepStep
    \/ \E h \in MintHttp : route_all(h)
    \/ do_route_get_execution_node
    \/ get_execution_node_alive(RouteTask)
    \/ get_execution_node_syncing(RouteTask)
    \/ get_execution_node_promote(RouteTask)
    \/ primary_no_node
    \/ primary_request

SpecMint == InitPrimary /\ [][NextMint]_vars

\* ------------------------------------------------------------ SpecFork
\* 41-42: genesis time, seconds per slot, slots per epoch.
GenesisTime == 1606824000
SecondsPerSlot == 12
SlotsPerEpoch == 32

\* The epochs the fork table and the timestamps range over.
MaxEpoch == 3

ForkNameShanghaiFirst(epoch, config) ==
    IF config.shanghai_fork_epoch.kind = "Some" /\ epoch >= config.shanghai_fork_epoch.value
    THEN "Shanghai"
    ELSE IF config.cancun_fork_epoch.kind = "Some" /\ epoch >= config.cancun_fork_epoch.value
    THEN "Cancun"
    ELSE "Merge"
\* 25-37: fork_name_at_epoch
fork_name_at_epoch(epoch, config) ==
    IF config.cancun_fork_epoch.kind = "Some" /\ epoch >= config.cancun_fork_epoch.value
    THEN "Cancun"
    ELSE IF config.shanghai_fork_epoch.kind = "Some" /\ epoch >= config.shanghai_fork_epoch.value
    THEN "Shanghai"
    ELSE "Merge"

\* 39-44: timestamp_to_version; checked_sub fails below the genesis time,
\* the two checked_div by a non-zero constant never do.
timestamp_to_version(t, config) ==
    IF t < GenesisTime THEN None
    ELSE Some(fork_name_at_epoch(((t - GenesisTime) \div SecondsPerSlot) \div SlotsPerEpoch,
                                 config))

\* ForkConfig: each fork epoch is set or not, in any order of the two.
ForkEpochs == {None} \cup {Some(e) : e \in 0..MaxEpoch}
ForkConfigs == [shanghai_fork_epoch : ForkEpochs, cancun_fork_epoch : ForkEpochs]

\* Timestamps before the genesis time, and at the start, inside and at the
\* end of each epoch.
Timestamps ==
    {0, GenesisTime - 1}
        \cup {GenesisTime + SecondsPerSlot * SlotsPerEpoch * e + d :
                e \in 0..MaxEpoch, d \in {0, SecondsPerSlot - 1, SecondsPerSlot * SlotsPerEpoch - 1}}

InitFork ==
    /\ InitPoolState
    /\ majority_percentage = DefaultThreshold
    /\ InitRouteIdle
    /\ fork_config \in ForkConfigs
    /\ timestamp = 0
    /\ fork_name = [kind |-> "none"]
    /\ earlier = NoCall

\* 39: one call of timestamp_to_version with the router's fork table.
timestamp_to_version_call ==
    /\ \E t \in Timestamps :
        /\ timestamp' = t
        /\ fork_name' = timestamp_to_version(t, fork_config)
    /\ earlier' = [timestamp |-> timestamp, fork_name |-> fork_name]
    /\ UNCHANGED <<fork_config, poolvars, majority_percentage, routevars>>

NextFork == timestamp_to_version_call

SpecFork == InitFork /\ [][NextFork]_vars

\* ===================================================================
\* Node pool: membership, primary, locks (SpecPool)
\* ===================================================================
AliveSet == SeqToSet(alive_nodes)
SyncingSet == SeqToSet(alive_but_syncing_nodes)
DeadSet == SeqToSet(dead_nodes)
Configured == SeqToSet(nodes)
NoRepeats(s) == \A i, j \in 1..Len(s) : s[i] = s[j] => i = j
DistinctUrls == \A i, j \in 1..Len(nodes) : url[nodes[i]] = url[nodes[j]] => i = j
PairwiseDisjoint ==
    /\ AliveSet \cap SyncingSet = {}
    /\ AliveSet \cap DeadSet = {}
    /\ SyncingSet \cap DeadSet = {}

C7_PrimaryDiscipline ==
    [][\A t \in Tasks :
         (pc[t] = "r_lock_dead" /\ pc'[t] # "r_lock_dead" /\ alive_nodes' # <<>>) =>
            /\ primary_node' = alive_nodes'[1]
            /\ \A i, j \in 1..Len(alive_nodes') : \A a, b \in 1..Len(nodes) :
                 (i < j /\ nodes[a] = alive_nodes'[i] /\ nodes[b] = alive_nodes'[j]) =>
                    probed[t][a].resp_time <= probed[t][b].resp_time]_vars

\* What each task is waiting to acquire at its position: <<lock, mode>>.
Waiting(t) ==
    CASE pc[t] = "r_lock_nodes" -> <<"nodes", "w">>
      [] pc[t] = "r_primary" -> <<"primary", "w">>
      [] pc[t] = "r_lock_syncing" -> <<"syncing", "w">>
      [] pc[t] = "r_lock_alive" -> <<"alive", "w">>
      [] pc[t] = "r_lock_dead" -> <<"dead", "w">>
      [] pc[t] = "g_lock_alive" -> <<"alive", "r">>
      [] pc[t] = "g_lock_syncing" -> <<"syncing", "r">>
      [] pc[t] = "g_promote" -> <<"primary", "w">>
      [] pc[t] = "m_lock_syncing" -> <<"syncing", "w">>
      [] pc[t] = "x_lock_syncing" -> <<"syncing", "r">>
      [] pc[t] = "x_lock_alive" -> <<"alive", "r">>
      [] pc[t] = "x_report_alive" -> <<"alive", "r">>
      [] pc[t] = "x_report_syncing" -> <<"syncing", "r">>
      [] pc[t] = "x_report_dead" -> <<"dead", "r">>
      [] pc[t] = "x_report_primary" -> <<"primary", "r">>
      [] OTHER -> <<"none", "none">>

\* The tasks whose hold on lock l keeps t from acquiring it.
Blockers(t) ==
    LET w == Waiting(t)
    IN IF w[1] = "none" THEN {}
       ELSE (IF wlock[w[1]] = NoTask THEN {} ELSE {wlock[w[1]]})
                \cup (IF w[2] = "w" THEN rlock[w[1]] ELSE {})

\* A set of tasks each of which waits for a lock held only inside the set.
Deadlocked ==
    \E S \in SUBSET Tasks :
        /\ S # {}
        /\ \A t \in S : Blockers(t) # {} /\ Blockers(t) \subseteq S

\* C8 (as stated): no interleaving of recheck, get_execution_node,
\* make_node_syncing and the metrics report reaches a state in which tasks
\* wait on each other's pool locks forever.
C8_NoLockDeadlock == ~Deadlocked

\* ===================================================================
\* The majority reducer (SpecReducer) and the engine routes (SpecRoute)
\* ===================================================================
InvalidStatuses == {"INVALID", "INVALID_BLOCK_HASH"}

\* Some collected payload status is INVALID or INVALID_BLOCK_HASH.
SomeInvalid == \E i \in 1..Len(PayloadStatusResps) : PayloadStatusResps[i].status \in InvalidStatuses

\* The responses with the largest count, and that count.
Modal == {PayloadStatusResps[i] : i \in {j \in 1..Len(PayloadStatusResps) :
            Count(PayloadStatusResps[j], PayloadStatusResps) = MaxCount(PayloadStatusResps)}}
ModalCount == MaxCount(PayloadStatusResps)

\* k < floor(|R| * t), t in tenths: k + 1 <= |R| * t / 10.
BelowThreshold == 10 * (ModalCount + 1) <= Len(PayloadStatusResps) * majority_percentage

\* The payload status a JSON-RPC result reply carries.
ReplyPayloadStatus ==
    IF request.method \in FcuMethods THEN reply.result.payloadStatus ELSE reply.result

\* A well-formed request for one of the methods, with a bearer token, has
\* been routed and answered.
Replied(methods) ==
    /\ stage = "replied"
    /\ request.method \in methods
    /\ incoming.rpc_ok
    /\ incoming.auth = "bearer"

\* C1: for newPayloadV1-3 and forkchoiceUpdatedV1-3, whenever a decoded
\* response is INVALID or INVALID_BLOCK_HASH, a reply that carries a payload
\* status carries SYNCING, INVALID or INVALID_BLOCK_HASH (never VALID or
\* ACCEPTED); a non-invalid status the reducer returned is replied only when
\* no response is invalid.
C1_InvalidNeverValid ==
    Replied(NewPayloadMethods \cup FcuMethods) =>
        /\ (SomeInvalid /\ reply.kind = "result") =>
                ReplyPayloadStatus.status \in {"SYNCING"} \cup InvalidStatuses
        /\ (reply.kind = "result" /\ result.kind = "Ok"
                /\ ReplyPayloadStatus.status \notin InvalidStatuses) => ~SomeInvalid

\* C1 witness: three nodes answered VALID, VALID and INVALID to a newPayload
\* whose payload verifies, under threshold 0.6, and the reply is SYNCING.
C1_Witness ==
    /\ Replied(NewPayloadMethods)
    /\ majority_percentage = 6
    /\ Len(resps) = 3
    /\ SomeInvalid
    /\ majority.kind = "Some" /\ majority.value.status = "VALID"
    /\ reply.kind = "result"
    /\ reply.result.status = "SYNCING"

\* C2 (as stated): if some element of R is INVALID or INVALID_BLOCK_HASH and
\* the modal element is not, fcu_logic returns OneNodeIsInvalid.
C2_ReducerSafetyAsStated ==
    (stage = "reduced" /\ SomeInvalid /\ \A m \in Modal : m.status \notin InvalidStatuses) =>
        result = Err("OneNodeIsInvalid")

\* C2 (amended): if some element of R is INVALID or INVALID_BLOCK_HASH, then
\* fcu_logic returns NoMajority when the modal count is below floor(|R| * t),
\* OneNodeIsInvalid when the modal count reaches floor(|R| * t) and no modal
\* element is invalid, and never a payload status that is not itself invalid.
C2_ReducerSafetyAtThreshold ==
    (stage = "reduced" /\ SomeInvalid) =>
        /\ BelowThreshold => result = Err("NoMajority")
        /\ (~BelowThreshold /\ \A m \in Modal : m.status \notin InvalidStatuses) =>
                result = Err("OneNodeIsInvalid")
        /\ result.kind = "Ok" => result.value.status \in InvalidStatuses

\* C2 witness: R holds an invalid response, its modal element is VALID with a
\* count that reaches the threshold, and fcu_logic returned OneNodeIsInvalid.
C2_Witness ==
    /\ stage = "reduced"
    /\ SomeInvalid
    /\ Len(resps) = 3
    /\ \A m \in Modal : m.status = "VALID"
    /\ ~BelowThreshold
    /\ majority_percentage > 0
    /\ result = Err("OneNodeIsInvalid")

\* C3: if every modal element of R is INVALID or INVALID_BLOCK_HASH and the
\* modal count reaches floor(|R| * t), fcu_logic returns a modal element as it
\* was received and the reply is that element as a JSON-RPC result with HTTP
\* 200, whatever the other responses are.
C3_InvalidMajorityReturned ==
    (/\ Replied(NewPayloadMethods \cup FcuMethods)
     /\ PayloadStatusResps # <<>>
     /\ result # NoResult
     /\ ~BelowThreshold
     /\ \A m \in Modal : m.status \in InvalidStatuses) =>
        /\ reply.kind = "result"
        /\ reply.http = 200
        /\ reply.id = request.id
        /\ ReplyPayloadStatus \in Modal
        /\ result = Ok(ReplyPayloadStatus)
        /\ majority = Some(ReplyPayloadStatus)

\* C3 witness: three nodes answered INVALID, INVALID and VALID and the reply
\* is the INVALID status with its latestValidHash and validationError.
C3_Witness ==
    /\ Replied(NewPayloadMethods \cup FcuMethods)
    /\ Len(resps) = 3
    /\ ModalCount = 2
    /\ \E i \in 1..3 : PayloadStatusResps[i].status = "VALID"
    /\ majority_percentage = 6
    /\ reply.kind = "result"
    /\ ReplyPayloadStatus =
         [status |-> "INVALID", latestValidHash |-> "0xdef", validationError |-> "bad block"]

C5_DistinctNoMajority ==
    (/\ stage = "reduced"
     /\ request = NoRequest
     /\ majority_percentage = 6
     /\ Len(resps) = 3
     /\ Cardinality(SeqToSet(resps)) = 3) => result = Err("NoMajority")

\* C9: engine_getPayloadV2/V3 is sent to every alive node; the reply is one of
\* the decoded responses and no decoded response has a larger block_value;
\* responses that failed or did not decode play no part; with no decoded
\* response the reply is a JSON-RPC error.
C9_ProfitabilityPick ==
    Replied(GetPayloadMethods) =>
        /\ sent = {[node |-> alive_nodes[i], via |-> "do_request"] : i \in 1..Len(alive_nodes)}
        /\ Len(completed) = Len(alive_nodes)
        /\ SeqToSet(resps) =
             {[block_value |-> completed[i].value.block_value,
               execution_payload |-> alive_nodes[i]] :
                 i \in {j \in 1..Len(completed) : completed[j].kind = "ok"}}
        /\ IF resps = <<>>
           THEN reply.kind = "error" /\ reply.id = request.id
           ELSE /\ reply.kind = "result"
                /\ reply.id = request.id
                /\ reply.result \in SeqToSet(resps)
                /\ \A i \in 1..Len(resps) : resps[i].block_value <= reply.result.block_value

\* C9 witness: one node failed in transport, two answered with block values 1
\* and 3, in that order of arrival or the other, and the reply carries 3.
C9_Witness ==
    /\ Replied(GetPayloadMethods)
    /\ Len(completed) = 3
    /\ \E i \in 1..3 : completed[i].kind = "transport_error"
    /\ {resps[i].block_value : i \in 1..Len(resps)} = {1, 3}
    /\ resps[1].block_value = 1
    /\ reply.kind = "result"
    /\ reply.result.block_value = 3

\* C10: for newPayloadV1-3, when fcu_logic fails the reply is the SYNCING
\* result only if params[0] decoded as the method's payload version and its
\* block hash equals the hash of its header; otherwise the reply is the bare
\* error string.
C10_SyncingOnlyIfVerified ==
    (Replied(NewPayloadMethods) /\ result.kind = "Err") =>
        LET payload == request.params.payload
            verified == /\ payload.fields >= MethodVersion(request.method)
                        /\ payload.block_hash = payload.header_hash
        IN /\ result.error \in {"NoResponses", "NoMajority", "OneNodeIsInvalid"}
           /\ verified => /\ reply.kind = "result"
                          /\ reply.result = SyncingStatusV1
                          /\ reply.id = request.id
           /\ ~verified => reply.kind = "raw"

\* C10 witness: fcu_logic failed on a newPayload whose payload decodes but
\* whose block hash is not the hash of its header, and the reply is the error
\* string.
C10_Witness ==
    /\ Replied(NewPayloadMethods)
    /\ result.kind = "Err"
    /\ request.params.payload.fields >= MethodVersion(request.method)
    /\ request.params.payload.block_hash # request.params.payload.header_hash
    /\ reply.kind = "raw"
    /\ reply.text = "BlockHashMismatch"

\* C11 (as stated): after fcu_logic returned a payload status for a newPayload
\* or forkchoiceUpdated request, the request is eventually sent to every node
\* of the syncing list by the backfill task.
C11_BackfillAfterSuccess ==
    (stage = "reduced" /\ result.kind = "Ok"
        /\ request.method \in NewPayloadMethods \cup FcuMethods)
    ~> (\A n \in SyncingSet : [node |-> n, via |-> "backfill"] \in sent)

\* The decoded responses are VALID, VALID and INVALID, in some order.
ValidValidInvalid ==
    /\ Len(resps) = 3
    /\ Cardinality({i \in 1..3 : resps[i].status = "VALID"}) = 2
    /\ Cardinality({i \in 1..3 : resps[i].status = "INVALID"}) = 1
    /\ ModalCount = 2

\* The request's params[0] decodes as the method's payload version and its
\* block hash is the hash of its header.
PayloadVerifies ==
    /\ request.params.payload.fields >= MethodVersion(request.method)
    /\ request.params.payload.block_hash = request.params.payload.header_hash

BackfillSent == {e \in sent : e.via = "backfill"}

\* C12 (as stated): when the alive nodes answer a newPayload with VALID, VALID
\* and INVALID, the CL receives the SYNCING envelope and the backfill to the
\* syncing nodes is scheduled.
C12_SyncingAndBackfill ==
    (Replied(NewPayloadMethods) /\ ValidValidInvalid /\ PayloadVerifies) =>
        /\ reply.kind = "result"
        /\ reply.result = SyncingStatusV1
        /\ spawned # "none"

\* C12 (amended): when the alive nodes answer a newPayload with VALID, VALID
\* and INVALID, fcu_logic fails with OneNodeIsInvalid (NoMajority when 2 is
\* below floor(3 * t)), the CL receives the SYNCING envelope if the payload
\* verifies, and no backfill is spawned: nothing is sent to a syncing node.
C12_SyncingNoBackfill ==
    (Replied(NewPayloadMethods) /\ ValidValidInvalid) =>
        /\ result = IF BelowThreshold THEN Err("NoMajority") ELSE Err("OneNodeIsInvalid")
        /\ PayloadVerifies => /\ reply.kind = "result"
                              /\ reply.http = 200
                              /\ reply.result = SyncingStatusV1
        /\ ~backfill
        /\ spawned = "none"
        /\ BackfillSent = {}

\* C12 witness: VALID, VALID, INVALID under threshold 0.6 with a node in the
\* syncing list; the reply is SYNCING and nothing was spawned.
C12_Witness ==
    /\ Replied(NewPayloadMethods)
    /\ ValidValidInvalid
    /\ majority_percentage = 6
    /\ result = Err("OneNodeIsInvalid")
    /\ alive_but_syncing_nodes # <<>>
    /\ reply.kind = "result"
    /\ reply.result = SyncingStatusV1
    /\ spawned = "none"

\* The payloadId a forkchoiceUpdated reply carries in its result; a result
\* object without that member reads as null.
ReplyPayloadId ==
    IF "payloadId" \in DOMAIN reply.result THEN reply.result.payloadId ELSE "null"

\* The responses that carry a payloadId.
WithPayloadId == {i \in 1..Len(resps) : resps[i].payloadId # "null"}

\* C13 (as stated): the payloadId of a forkchoiceUpdated reply is that of the
\* first response with a non-null payloadId, and null only if every
\* response's payloadId is null.
C13_FirstPayloadIdWins ==
    (Replied(FcuMethods) /\ reply.kind = "result") =>
        IF WithPayloadId = {} THEN ReplyPayloadId = "null"
        ELSE \E i \in WithPayloadId :
                /\ \A j \in WithPayloadId : i <= j
                /\ ReplyPayloadId = resps[i].payloadId

\* C13 (amended): when fcu_logic returns a payload status, the payloadId of
\* the forkchoiceUpdated reply is that of the last response with a non-null
\* payloadId, null if there is none; when fcu_logic fails the result carries
\* no payloadId whatever the responses carried.
C13_LastPayloadIdWins ==
    Replied(FcuMethods) =>
        /\ reply.kind = "result"
        /\ result.kind = "Ok" =>
            /\ DOMAIN reply.result = {"payloadStatus", "payloadId"}
            /\ IF WithPayloadId = {} THEN reply.result.payloadId = "null"
               ELSE \E i \in WithPayloadId :
                        /\ \A j \in WithPayloadId : j <= i
                        /\ reply.result.payloadId = resps[i].payloadId
        /\ result.kind = "Err" => ReplyPayloadId = "null"

\* C13 witness: the first response carries payloadId 0x01, a later one 0x02,
\* and the reply carries 0x02.
C13_Witness ==
    /\ Replied(FcuMethods)
    /\ result.kind = "Ok"
    /\ Len(resps) >= 2
    /\ resps[1].payloadId = "0x01"
    /\ resps[Len(resps)].payloadId = "0x02"
    /\ reply.result.payloadId = "0x02"

\* C14 (as stated): on a reducer error the forkchoiceUpdated reply is HTTP 200
\* with a result { payloadStatus, payloadId } whose payloadStatus is SYNCING
\* with null latestValidHash and whose payloadId is null.
C14_SyncingResultShape ==
    (Replied(FcuMethods) /\ result.kind = "Err") =>
        /\ reply.kind = "result"
        /\ reply.http = 200
        /\ DOMAIN reply.result = {"payloadStatus", "payloadId"}
        /\ reply.result.payloadStatus = SyncingStatusV1
        /\ reply.result.payloadId = "null"

\* -------------------------------------------------------------- C15
\* The handler's step that contacts the node, for engine_getPayloadV1.
GetPayloadV1Call ==
    /\ request.method = "engine_getPayloadV1"
    /\ stage = "received"
    /\ stage' \in {"failed", "replied"}
    /\ sel[RouteTask] # NoNode

\* The step on which make_node_syncing returns to the handler.
MakeNodeSyncingReturns ==
    /\ request.method = "engine_getPayloadV1"
    /\ stage = "failed"
    /\ pc[RouteTask] # "idle"
    /\ pc'[RouteTask] = "idle"

UrlAlive(n) == \E i \in 1..Len(alive_nodes) : url[alive_nodes[i]] = url[n]

MembershipUnchanged ==
    UNCHANGED <<alive_nodes, alive_but_syncing_nodes, dead_nodes, primary_node, status>>

\* C15 as stated: once the call failed with a connect/timeout/request error
\* and make_node_syncing has returned, the node is in the syncing list and
\* not in the alive list.
C15_DemotedToSyncing ==
    [][MakeNodeSyncingReturns =>
          /\ sel[RouteTask] \in SeqToSet(alive_but_syncing_nodes')
          /\ sel[RouteTask] \notin SeqToSet(alive_nodes')]_vars

\* C15 (amended): engine_getPayloadV1 is sent to exactly one node, the one
\* get_execution_node returned.  A success is answered with that node's
\* response and changes no list.  Only a connect/timeout/request error runs
\* make_node_syncing, which removes the first alive entry with the node's url
\* and appends the node to the syncing list as OnlineAndSyncing when that url
\* is in the alive list, and changes nothing when it is not; the CL then
\* receives a JSON-RPC error with HTTP 200.
C15_GetPayloadV1Demotion ==
    [][/\ GetPayloadV1Call =>
            /\ sent' = {[node |-> sel[RouteTask], via |-> "do_request_no_timeout"]}
            /\ MembershipUnchanged
            /\ (stage' = "failed") <=> (completed'[1].kind = "err_connect")
            /\ completed'[1].kind = "ok" => reply' = Upstream(sel[RouteTask], completed'[1])
            /\ completed'[1].kind = "err_other" => reply'.kind = "error" /\ reply'.http = 200
       /\ MakeNodeSyncingReturns =>
            IF pc[RouteTask] = "m_lock_syncing"
            THEN /\ UrlAlive(sel[RouteTask])
                 /\ Len(alive_nodes') = Len(alive_nodes) - 1
                 /\ alive_but_syncing_nodes' = Append(alive_but_syncing_nodes, sel[RouteTask])
                 /\ status'[sel[RouteTask]] = "OnlineAndSyncing"
            ELSE /\ ~UrlAlive(sel[RouteTask])
                 /\ MembershipUnchanged
       /\ (request.method = "engine_getPayloadV1" /\ stage = "failed" /\ stage' = "replied") =>
            /\ reply'.kind = "error" /\ reply'.http = 200 /\ reply'.id = request.id
            /\ sent' = sent
            /\ MembershipUnchanged]_vars

\* make_node_syncing moved the node the failed engine_getPayloadV1 went to.
C15_Witness ==
    /\ Replied({"engine_getPayloadV1"})
    /\ completed = <<[kind |-> "err_connect", status |-> 0]>>
    /\ reply.kind = "error"
    /\ PrimaryUsed \in SyncingSet
    /\ PrimaryUsed \notin AliveSet
    /\ status[PrimaryUsed] = "OnlineAndSyncing"

\* -------------------------------------------------------------- C16
\* C16 as stated: when the request of another engine_* method to the
\* primary failed with a connect/timeout/request error, the node it went to
\* has left the alive list by the time the CL is answered, as it has for
\* engine_getPayloadV1.
C16_OtherEngineDemotes ==
    (/\ Replied(OtherEngineMethods)
     /\ completed = <<[kind |-> "err_connect", status |-> 0]>>)
        => PrimaryUsed \notin AliveSet

\* -------------------------------------------------------------- C17
\* The step of the spawned replay task.
ReplayStep ==
    /\ request.method \in OtherEngineMethods
    /\ spawned = "pending"
    /\ spawned' = "done"

\* C17 as stated: for any other engine_* method the CL's reply is the
\* primary's response, the replay goes to every alive node other than the
\* primary and not to the primary, and a request that came in is eventually
\* answered and (when a node was available) replayed.
C17_ReplayToOthers ==
    /\ []((Replied(OtherEngineMethods) /\ completed # <<>> /\ completed[1].kind = "ok")
             => reply = Upstream(PrimaryUsed, completed[1]))
    /\ [][ReplayStep =>
             sent' \ sent = {[node |-> n, via |-> "replay"] : n \in AliveSet \ {PrimaryUsed}}]_vars
    /\ (stage = "received" /\ request.method \in OtherEngineMethods)
          ~> (stage = "replied" /\ (sent = {} \/ spawned = "done"))

\* The liveness part of C17 alone.
C17_EventuallyReplayed ==
    (stage = "received" /\ request.method \in OtherEngineMethods)
        ~> (stage = "replied" /\ (sent = {} \/ spawned = "done"))

\* -------------------------------------------------------------- C18
\* route_all let the request through and the handler has answered it.
Routed ==
    /\ stage = "replied"
    /\ route_all_rejection(incoming) = NoReply

\* The failures past route_all: no node for a primary-only method, a reducer
\* error (behind which lie the decode and the block-hash verification of
\* make_syncing_str), no usable getPayload response, a failed call to the
\* one node.
DownstreamFailure ==
    \/ request.method \in PrimaryMethods /\ sent = {}
    \/ request.method \in NewPayloadMethods \cup FcuMethods /\ result.kind = "Err"
    \/ request.method \in GetPayloadMethods /\ resps = <<>>
    \/ request.method \in PrimaryMethods /\ completed # <<>> /\ completed[1].kind # "ok"

JsonRpcError == reply.kind = "error"

SyncingResult ==
    /\ reply.kind = "result"
    /\ ReplyPayloadStatus = SyncingStatusV1

\* C18 as stated: every downstream failure on POST / is answered with HTTP
\* 200 and a JSON-RPC shaped body, an error object or a SYNCING result.
C18_FailuresAre200JsonRpc ==
    (Routed /\ DownstreamFailure) =>
        /\ reply.http = 200
        /\ JsonRpcError \/ SyncingResult

\* -------------------------------------------------------------- C19
\* get_execution_node returned None to the handler of a primary-only method,
\* which has answered.
PoolEmptyAnswered ==
    /\ Routed
    /\ request.method \in PrimaryMethods
    /\ completed = <<>>

\* C19 as stated: whenever get_execution_node returns None for a
\* primary-only method, the reply is a JSON-RPC error with HTTP 500 and no
\* node is contacted.
C19_PoolEmpty500 ==
    PoolEmptyAnswered =>
        /\ reply.kind = "error"
        /\ reply.http = 500
        /\ sent = {}

\* -------------------------------------------------------------- C20
\* The three inbound requests of C20: a body that is not JSON, a body
\* without a string method, an engine_ method without Authorization header.
TurnedAway(h) ==
    \/ ~h.json
    \/ h.meth = "none"
    \/ IsEngine(h.meth) /\ h.auth = "none"

\* C20: each of the three is answered by route_all itself with HTTP 400 and
\* a JSON-RPC error body carrying id 0; no request is sent to any node, then
\* or later, and the lists, the primary and the nodes' health are unchanged.
C20_BadRequestRejected ==
    [][/\ (stage = "idle" /\ stage' # "idle" /\ TurnedAway(incoming')) =>
            /\ stage' = "replied"
            /\ reply'.kind = "error"
            /\ reply'.http = 400
            /\ reply'.id = 0
            /\ sent' = {}
            /\ UNCHANGED poolvars
       /\ (stage = "replied" /\ TurnedAway(incoming)) =>
            UNCHANGED <<sent, reply, poolvars>>]_vars

\* An engine request without Authorization header has been answered.
C20_Witness ==
    /\ stage = "replied"
    /\ incoming.json
    /\ IsEngine(incoming.meth)
    /\ incoming.rpc_ok
    /\ incoming.auth = "none"
    /\ reply = make_error(0, "Request has no Authorization header", BadRequest)
    /\ sent = {}
    /\ AliveSet # {}

\* -------------------------------------------------------------- C21
\* The handler's step that contacts the node, for a non-engine method.
NormalCall ==
    /\ request.method \in NormalMethods
    /\ stage = "received"
    /\ stage' = "replied"
    /\ sel[RouteTask] # NoNode

\* C21: a non-engine method is sent to exactly one node, the one
\* get_execution_node returned; the reply is that node's body and status,
\* or a JSON-RPC error with HTTP 200 when the call failed; nothing is sent
\* afterwards and the lists are not changed.
C21_NormalForwardedToPrimary ==
    [][/\ NormalCall =>
            /\ sent = {}
            /\ sent' = {[node |-> sel[RouteTask], via |-> "do_request_no_timeout"]}
            /\ completed'[1].kind = "ok" => reply' = Upstream(sel[RouteTask], completed'[1])
            /\ completed'[1].kind # "ok" => reply'.kind = "error" /\ reply'.http = 200
            /\ UNCHANGED <<alive_nodes, alive_but_syncing_nodes, dead_nodes, status>>
       /\ (request.method \in NormalMethods /\ stage = "replied") =>
            UNCHANGED <<sent, reply>>]_vars

\* A non-engine request without Authorization header was answered with the
\* node's own body and status.
C21_Witness ==
    /\ Routed
    /\ request.method \in NormalMethods
    /\ incoming.auth = "none"
    /\ completed = <<[kind |-> "ok", status |-> 401]>>
    /\ reply = Upstream(PrimaryUsed, completed[1])
    /\ sent = {[node |-> PrimaryUsed, via |-> "do_request_no_timeout"]}

\* -------------------------------------------------------------- C23
ForkRank(f) == IF f = "Merge" THEN 1 ELSE IF f = "Shanghai" THEN 2 ELSE 3

\* C23: for every fork table and any two calls with timestamps t1 <= t2
\* at or after the genesis time, fork(t1) <= fork(t2) in the order
\* Merge < Shanghai < Cancun; below the genesis time the selector fails, and
\* from it on it returns a fork.
C23_ForkSelectorMonotone ==
    /\ fork_name.kind # "none" => (fork_name = None <=> timestamp < GenesisTime)
    /\ (/\ earlier.fork_name.kind = "Some"
        /\ fork_name.kind = "Some"
        /\ earlier.timestamp <= timestamp)
            => ForkRank(earlier.fork_name.value) <= ForkRank(fork_name.value)

\* Two calls in time order crossed the Cancun epoch of a table whose
\* Shanghai epoch is later than its Cancun epoch.
C23_Witness ==
    /\ fork_config.shanghai_fork_epoch = Some(2)
    /\ fork_config.cancun_fork_epoch = Some(1)
    /\ earlier.fork_name = Some("Merge")
    /\ fork_name = Some("Cancun")
    /\ earlier.timestamp < timestamp

\* -------------------------------------------------------------- C22
\* The sweep task is between two rechecks: the last one has completed.
RecheckCompleted == pc[SweepTask] = "r_lock_nodes"

\* C22 as stated: under fair scheduling recheck completes infinitely often,
\* whatever the request handling does meanwhile.
C22_SweepRecurs == []<>RecheckCompleted

\* -------------------------------------------------------------- C24
\* The node of alive that get_execution_node picks for a task: the first
\* whose url is not that of the old primary; NoNode when there is none.
FirstOtherAlive(t) ==
    IF \A j \in 1..Len(alive_nodes) : url[alive_nodes[j]] = old_url[t]
    THEN NoNode
    ELSE alive_nodes[CHOOSE i \in 1..Len(alive_nodes) :
                        /\ url[alive_nodes[i]] # old_url[t]
                        /\ \A j \in 1..(i - 1) : url[alive_nodes[j]] = old_url[t]]

Demoted(t) == pc[t] = "m_lock_syncing" /\ pc'[t] = "idle"

\* alive_nodes' is alive_nodes without its first entry that has node n's url.
FirstOfUrlRemoved(n) ==
    \E i \in 1..Len(alive_nodes) :
        /\ url[alive_nodes[i]] = url[n]
        /\ \A j \in 1..(i - 1) : url[alive_nodes[j]] # url[n]
        /\ alive_nodes' = SubSeq(alive_nodes, 1, i - 1) \o SubSeq(alive_nodes, i + 1, Len(alive_nodes))

UniqueUrl(n) == \A k \in SeqToSet(nodes) : url[k] = url[n] => k = n

LockRank(l) ==
    IF l = "nodes" THEN 1
    ELSE IF l = "syncing" THEN 2
    ELSE IF l = "alive" THEN 3
    ELSE IF l = "dead" THEN 4
    ELSE 5

\* The locks task t holds, exclusively or shared.
HeldBy(t) == {l \in Locks : wlock[l] = t \/ t \in rlock[l]}

\* Task t comes to hold lock l on this step.
Acquires(t, l) ==
    /\ l \notin HeldBy(t)
    /\ wlock'[l] = t \/ t \in rlock'[l]

\* C26 as stated: a task that acquires a lock while it holds others holds
\* only locks that come earlier in the order nodes, syncing, alive, dead,
\* primary.
C26_LockOrder ==
    [][\A t \in Tasks : \A l \in Locks :
          Acquires(t, l) => \A h \in HeldBy(t) : LockRank(h) < LockRank(l)]_vars

\* -------------------------------------------------------------- C27
\* C27: in every reachable state primary is one of the configured nodes,
\* also when every node is dead; and the configured list only grows: each
\* step keeps its nodes, in place.
C27_PrimaryConfigured ==
    /\ [](primary_node \in Configured)
    /\ [][/\ Len(nodes') >= Len(nodes)
          /\ SubSeq(nodes', 1, Len(nodes)) = nodes]_vars

\* After /add_nodes and a sweep in which every probe failed, every
\* configured node is dead and the primary is one of them.
C27_Witness ==
    /\ Len(nodes) = MaxNodes
    /\ DeadSet = Configured
    /\ AliveSet = {}
    /\ SyncingSet = {}
    /\ primary_node \in DeadSet
    /\ pc[SweepTask] = "r_lock_nodes"

\* ---- C28
\* Indices of the configured list whose probe of this sweep gave status st.
ProbedAs(t, st) == {i \in 1..Len(probed[t]) : probed[t][i].status = st}

\* The node recheck must elect, read off the probe results alone: the
\* Synced node with the least response time (the earlier configured one on a
\* tie, the sort being stable), else the first OnlineAndSyncing node, else
\* the first Offline node; 0 when no node falls in any class.
Elected(t) ==
    LET synced == ProbedAs(t, "Synced")
        syncing == ProbedAs(t, "OnlineAndSyncing")
        offline == ProbedAs(t, "Offline")
        Least(S) == CHOOSE i \in S : \A j \in S : i <= j
        fastest == {i \in synced :
                      \A j \in synced : probed[t][i].resp_time <= probed[t][j].resp_time}
    IN  IF synced # {} THEN nodes[Least(fastest)]
        ELSE IF syncing # {} THEN nodes[Least(syncing)]
        ELSE IF offline # {} THEN nodes[Least(offline)]
        ELSE 0

\* C28: the step of recheck that writes primary sets it to the lowest-latency
\* node that probed Synced if there is one, otherwise to the first node that
\* probed OnlineAndSyncing, otherwise to the first that probed Offline; the
\* configured list is never empty, every configured node was probed into one
\* of the three classes, so the nodes[0] fallback is never the one taken.
C28_RecheckPrimary ==
    /\ [](nodes # <<>>)
    /\ [][\A t \in Tasks :
            (pc[t] = "r_primary" /\ pc'[t] = "r_lock_syncing") =>
                /\ Len(probed[t]) = Len(nodes)
                /\ Elected(t) # 0
                /\ primary_node' = Elected(t)]_vars

\* Two nodes probed Synced, the second configured one answered faster and
\* the sweep has just made it primary.
C28_Witness ==
    /\ pc[SweepTask] = "r_lock_syncing"
    /\ Len(nodes) = 2
    /\ Len(probed[SweepTask]) = 2
    /\ probed[SweepTask][1].status = "Synced"
    /\ probed[SweepTask][2].status = "Synced"
    /\ probed[SweepTask][2].resp_time < probed[SweepTask][1].resp_time
    /\ primary_node = nodes[2]

\* ---- C29
BroadcastMethods == NewPayloadMethods \cup FcuMethods \cup GetPayloadMethods

\* The step in which concurrent_requests sends the request and collects.
BroadcastDispatch == stage = "received" /\ stage' = "collected"

\* The calls of the dispatch that came back usable.
Usable(done) == {i \in 1..Len(done) : done[i].kind = "ok"}

NothingUsable ==
    /\ request.method \in NewPayloadMethods \cup FcuMethods
    /\ Usable(completed) = {}

\* C30: when no alive node yields a parsable response to a newPayload or
\* forkchoiceUpdated request, the alive list being empty included, fcu_logic
\* returns NoResponses and not NoMajority, it spawns no backfill task, and
\* the request is never sent to a syncing node.
C30_NoResponses ==
    /\ [][(stage = "collected" /\ stage' = "reduced" /\ NothingUsable) =>
            /\ result' = Err("NoResponses")
            /\ ~backfill'
            /\ spawned' = "none"]_vars
    /\ [](NothingUsable =>
            /\ result \in {NoResult, Err("NoResponses")}
            /\ stage = "reduced" => result = Err("NoResponses")
            /\ spawned = "none"
            /\ \A m \in sent : m.via # "backfill")

\* Both alive nodes were called and failed, a syncing node was there to be
\* backfilled, and the request is answered without any backfill.
C30_Witness ==
    /\ stage = "replied"
    /\ NothingUsable
    /\ Len(completed) = 2
    /\ alive_but_syncing_nodes # <<>>
    /\ result = Err("NoResponses")
    /\ reply = make_syncing_str(request)
    /\ spawned = "none"

\* ===================================================================
\* Reducer and routing: further properties
\* ===================================================================
\* ---- C31
\* The payload status one usable call of the dispatch decoded to.
StatusOf(c) ==
    IF request.method \in FcuMethods THEN c.value.payloadStatus ELSE c.value

\* The step in which fcu_logic reduces what the dispatch collected.
ReducerStep ==
    /\ stage = "collected"
    /\ stage' = "reduced"
    /\ request.method \in NewPayloadMethods \cup FcuMethods

\* C31: the count required of one response is at most 1 at every threshold
\* in [0, 1], so a single response is a majority; when
\* exactly one of the alive nodes called gives a usable answer, fcu_majority
\* returns that answer and fcu_logic's result is that answer, never
\* NoMajority, however many alive nodes were called.
C31_SingleResponseDecides ==
    /\ [](\A t \in Thresholds : majority_count(1, t) <= 1)
    /\ [][(ReducerStep /\ Cardinality(Usable(completed)) = 1) =>
            \E i \in Usable(completed) :
                /\ majority' = Some(StatusOf(completed[i]))
                /\ result' = Ok(StatusOf(completed[i]))]_vars

\* Three alive nodes, threshold 1.0, one usable answer: it is the result.
C31_Witness ==
    /\ stage = "reduced"
    /\ request.method \in NewPayloadMethods
    /\ majority_percentage = 10
    /\ Len(completed) = 3
    /\ Cardinality(Usable(completed)) = 1
    /\ result.kind = "Ok"

\* ---- C32
\* The first response, in response order, among those with the largest count.
FirstModal ==
    PayloadStatusResps[CHOOSE i \in 1..Len(PayloadStatusResps) :
        /\ Count(PayloadStatusResps[i], PayloadStatusResps) = ModalCount
        /\ \A j \in 1..(i - 1) :
             Count(PayloadStatusResps[j], PayloadStatusResps) < ModalCount]

\* C32 (as stated): on a tie for the highest count fcu_majority returns the
\* first of the tied responses in response order, so fcu_logic's result is a
\* function of the response list and the threshold alone.
C32_TieTakesFirst ==
    (stage = "reduced" /\ resps # <<>>) =>
        /\ majority = IF BelowThreshold THEN None ELSE Some(FirstModal)
        /\ result = FcuLogicResult(PayloadStatusResps,
                                   IF BelowThreshold THEN None ELSE Some(FirstModal))

\* ---- C33
\* C33 (as stated): when the token of a request that is not engine_ was
\* minted by route_all, it was minted from the secret of the node the request
\* is sent to.
C33_TokenOfReceiver ==
    jwt_token.kind = "minted" =>
        \A m \in sent : m.via = "do_request_no_timeout" => jwt_token.key = jwt_key(m.node)

\* ---- C34
\* C34 (as stated): every call that carries a broadcast request to a node is
\* made with the unbounded operation, do_request_no_timeout (the backfill
\* included), and none with do_request.
C34_BroadcastUnbounded ==
    request.method \in BroadcastMethods =>
        \A m \in sent : m.via \in {"do_request_no_timeout", "backfill"}

\* ---- C35
\* C35 (as stated): in a forkchoiceUpdated reply built from a successful
\* reduction, a payloadId that is not null is the payloadId of a response
\* whose payloadStatus is the payloadStatus returned.
C35_PayloadIdOfMajority ==
    (/\ stage = "replied"
     /\ request.method \in FcuMethods
     /\ result.kind = "Ok"
     /\ reply.kind = "result"
     /\ reply.result.payloadId # "null") =>
        \E i \in 1..Len(resps) :
            /\ resps[i].payloadStatus = reply.result.payloadStatus
            /\ resps[i].payloadId = reply.result.payloadId

\* ---- C36
\* C36 (as stated): a JSON-RPC body (result or error object) the router
\* builds in answer to a request that parsed as an RpcRequest carries the id
\* of that request.
C36_ReplyCarriesRequestId ==
    (/\ stage = "replied"
     /\ incoming.rpc_ok
     /\ reply.kind \in {"result", "error"}) => reply.id = request.id

\* ===================================================================
\* Node pool: health, demotion and sweeps
\* ===================================================================
\* ---- C37
\* get_execution_node returns None to task t in this step.
ReturnsNone(t) == pc[t] # "g_done" /\ pc'[t] = "g_done" /\ sel'[t] = NoNode

\* C37 (as stated): get_execution_node returns None only when the alive list
\* is empty, so a primary-only request is answered with "No nodes available"
\* only then.
C37_NoneOnlyWhenAliveEmpty ==
    [][\A t \in RequestTasks : ReturnsNone(t) => alive_nodes = <<>>]_vars

\* ---- C38
\* C38 (as stated): in every reachable state every node of the alive list has
\* health Synced and every node of the syncing list has health
\* OnlineAndSyncing.
C38_MembershipAgreesWithHealth ==
    /\ \A n \in AliveSet : status[n] = "Synced"
    /\ \A n \in SyncingSet : status[n] = "OnlineAndSyncing"

\* ---- C39
\* The step in which the sweep of task t rebuilds the three lists.
Rebuilds(t) == pc[t] = "r_lock_dead" /\ pc'[t] # "r_lock_dead"

\* Node nodes[i] was probed Synced by the sweep of task t and demoted by
\* make_node_syncing since: it stands on the syncing list with the health
\* make_node_syncing gave it.
DemotedSinceProbe(t, i) ==
    /\ probed[t][i].status = "Synced"
    /\ status[nodes[i]] = "OnlineAndSyncing"
    /\ nodes[i] \in SyncingSet
    /\ nodes[i] \notin AliveSet

\* C39 (as stated): a sweep whose probe of a node finished before the node
\* was demoted by make_node_syncing does not put the node back into alive.
C39_StaleProbeDoesNotPromote ==
    [][\A t \in Tasks : Rebuilds(t) =>
          \A i \in 1..Len(probed[t]) :
              DemotedSinceProbe(t, i) => nodes[i] \notin SeqToSet(alive_nodes')]_vars

\* ---- C40
\* Task t is inside recheck, past nodes.lock() and before its return.
Sweeping(t) ==
    pc[t] \in {"r_probe", "r_primary", "r_lock_syncing", "r_lock_alive", "r_lock_dead"}

\* C40: a task inside recheck holds the nodes mutex from before its probes
\* until its rebuild, so no two sweeps overlap; the configured list does not
\* change while a sweep is under way; and the rebuild leaves on the three
\* lists exactly the classification of that one sweep's probes, every
\* configured node on the list of the health it was probed with.
C40_SweepsExclusive ==
    /\ [](\A t \in Tasks : Sweeping(t) => wlock["nodes"] = t)
    /\ [][nodes' # nodes => \A t \in Tasks : ~Sweeping(t)]_vars
    /\ [][\A t \in Tasks : Rebuilds(t) =>
            /\ Len(probed[t]) = Len(nodes)
            /\ SeqToSet(alive_nodes') \cup SeqToSet(alive_but_syncing_nodes')
                    \cup SeqToSet(dead_nodes') = Configured
            /\ \A i \in 1..Len(nodes) :
                /\ nodes[i] \in SeqToSet(alive_nodes') <=> probed[t][i].status = "Synced"
                /\ nodes[i] \in SeqToSet(alive_but_syncing_nodes')
                        <=> probed[t][i].status = "OnlineAndSyncing"
                /\ nodes[i] \in SeqToSet(dead_nodes') <=> probed[t][i].status = "Offline"]_vars

\* The periodic sweep is probing while the recheck of /add_nodes, which has
\* appended a second node, waits for the nodes mutex.
C40_Witness ==
    /\ pc[SweepTask] = "r_probe"
    /\ wlock["nodes"] = SweepTask
    /\ Len(nodes) = 2
    /\ \E t \in AdminTasks : pc[t] = "r_lock_nodes"

====
